---- MODULE Spec2Model ----
(***************************************************************************)
(* A model of the broadcast control path of wallyssonstudiodv/ads:         *)
(*   - AntiSpamService   (src/services/antiSpamService.js)   rate guard    *)
(*   - WhatsAppService   (src/services/whatsappService.js)   sessions and  *)
(*                                                           dispatch      *)
(*   - SchedulerService  (src/services/whatsappService.json, lines 290ff)  *)
(*                                                           cron registry *)
(*   - WhatsAppBotPanel  (src/unnamed/part_001)   single-session schedules *)
(* Each component has its own specifications (SpecRate, SpecGuard,         *)
(* SpecUnblock, SpecCleanup, SpecDuplicate, SpecSession, SpecSweep,        *)
(* SpecReconnect, SpecRetry, SpecPairing, SpecDispatch, SpecGuarded,       *)
(* SpecSched, SpecOverlap, SpecRecur, SpecCancel, SpecFirings,             *)
(* SpecValidate, SpecRoutes, SpecPanel) over the one set of variables; the *)
(* variables of the components a specification leaves out stay at their    *)
(* initial value.                                                          *)
(***************************************************************************)
EXTENDS Integers, Sequences, FiniteSets, TLC

(***************************************************************************)
(* Bounds of the model                                                     *)
(***************************************************************************)
\* recorded sends explored in the rate guard
MaxSends == 2
\* minutes of wall-clock time explored in the rate guard, after StartMinute
MaxMinutes == 4
\* provider sockets made in one run of the session manager
MaxSocks == 2
\* cron tasks that exist at one time (started, or destroyed with their callback
\* still running)
MaxTasks == 2
\* days of scheduler time explored after StartDate
MaxDays == 2
\* days explored after StartDate for the recurrences
MaxRecurDays == 30
\* minutes of wall-clock time explored when the rate guard is called directly
MaxGuardMinutes == 2
\* the sockets made while reconnects are counted (SpecRetry)
MaxRetrySocks == 11
\* hours of wall-clock time explored for the periodic cleanup of the rate guard
MaxCleanupHours == 3
\* minutes of one hour explored for the duplicate-group check
MaxDuplicateMinutes == 6
\* minute ticks of the single-session panel followed
MaxPanelMinutes == 3

(***************************************************************************)
(* Program constants                                                       *)
(***************************************************************************)
\* moment().startOf('hour'): an hour bucket is 60 minutes
MinutesPerHour == 60
\* canSendMessage: "timeSinceFirst < 5"
DuplicateWindowMinutes == 5
\* config.whatsapp.maxReconnectAttempts
MaxReconnectAttempts == 10
\* calculateNextRun looks at today and the six days after it
DaysPerWeek == 7

Users == {"u1", "u2"}
Groups == {"g1", "g2"}
RateWorkers == {"w1", "w2"}
\* the tenant whose dispatch workers call the rate guard; the operator's calls
\* (blockUser) concern every user
DispatchTenants == {"u1"}

\* the process starts shortly before an hour boundary, so that a window older
\* than the duplicate horizon and both sides of the boundary are explored
StartMinute == MinutesPerHour - 2

\* settings.antiSpam as persisted: enabled, maxMessagesPerHour in 1..100,
\* cooldownMinutes in 1..1440 (updateSettings validates these ranges)
SettingsChoices ==
    [enabled : BOOLEAN, maxMessagesPerHour : {1, 2}, cooldownMinutes : {2}]

\* blockUser(userId, minutes): the minutes a direct caller passes
BlockMinutes == {2}

NoActivity == [none |-> TRUE]
NoBlock == [none |-> TRUE]
\* a field that was never set and then incremented: undefined++ is NaN
\* (numbers below zero stand for the two non-numeric values of a counter)
Undefined == -1
NaN == -2

VARIABLES
    clock,          \* wall-clock time of the rate guard, in minutes
    settings,       \* db.getAntiSpamSettings()
    userActivity,   \* AntiSpamService.userActivity: <<user, hour>> -> window
    blockedUsers,   \* AntiSpamService.blockedUsers: user -> block record
    rw,             \* callers of the rate guard: check, then send, then record
    recorded,       \* history: the number of send attempts recorded per user
    lastCheck,      \* history: the last canSendMessage call and its result
    everBlocked,    \* history: the users for whom a block record was ever created
    lastOp,         \* history: the last maintenance call and what it handed back
    lastTargeted,   \* history: when a send of a tenant to a group was last recorded
    connections,    \* WhatsAppService.connections: user -> { sock, connected }
    qrCodes,        \* WhatsAppService.qrCodes: the users with a pairing challenge
    socks,          \* the provider sockets made so far, in order of creation
    timers,         \* pending setTimeout(() => connectUser(userId), reconnectDelay)
    connecting,     \* connectUser calls between their entry check and makeWASocket
    loggingOut,     \* disconnectUser calls awaiting sock.logout()
    disconnected,   \* history: disconnectUser returned, no connect request pending or since
    disp,           \* broadcastAd calls, one per dispatch worker
    now,            \* the scheduler's clock: the slot that has begun last
    ads,            \* DatabaseService.ads: campaign id -> ad
    tasks,          \* the node-cron tasks: task id -> task, NoTask when free
    scheduledTasks, \* SchedulerService.scheduledTasks: campaign id -> entry
    due,            \* tasks whose callback node-cron invokes for the slot begun
    panel,          \* the single-session panel: its clock, its schedule, its sends
    fires,          \* history: the last firing of each recurring campaign, and whether it
                    \* came one recurrence unit after the firing before it
    lastCall        \* history: the last scheduleAd call and its outcome, or the
                    \* startup re-registration that has just run

rateVars == <<clock, settings, userActivity, blockedUsers, rw, recorded, lastCheck,
              everBlocked, lastOp, lastTargeted>>
connVars == <<connections, qrCodes, socks, timers, connecting, loggingOut,
              disconnected>>
sessVars == <<connVars, disp>>
schedVars == <<now, ads, tasks, scheduledTasks, due, fires, lastCall, panel>>

vars == <<rateVars, sessVars, schedVars>>

(***************************************************************************)
(* AntiSpamService                                                         *)
(***************************************************************************)
Hours == 0 .. ((StartMinute + MaxMinutes) \div MinutesPerHour + MaxCleanupHours)

\* moment().startOf('hour')
CurrentHour == clock \div MinutesPerHour

\* `${userId}-${currentHour}`
ActivityKey(u, h) == <<u, h>>

\* isUserBlocked with the expiry test off by one (isSameOrAfter for isAfter)
IsUserBlockedSameOrAfter(u) ==
    /\ blockedUsers[u] # NoBlock
    /\ ~(clock >= blockedUsers[u].unblockTime)

\* isUserBlocked: the value it returns
IsUserBlocked(u) ==
    /\ blockedUsers[u] # NoBlock
    /\ ~(clock > blockedUsers[u].unblockTime)

\* isUserBlocked: its effect, the lazy removal of an expired block
AfterIsUserBlocked(u) ==
    IF blockedUsers[u] # NoBlock /\ clock > blockedUsers[u].unblockTime
    THEN [blockedUsers EXCEPT ![u] = NoBlock]
    ELSE blockedUsers

\* blockUser(userId, minutes), applied to the block map bu
BlockUser(bu, u, minutes) ==
    [bu EXCEPT ![u] = [blockedAt |-> clock,
                       unblockTime |-> clock + minutes,
                       reason |-> "rate_limit"]]

\* the window canSendMessage creates lazily: no successful / failed fields
NewWindowByCheck ==
    [count |-> 0, groups |-> {}, firstMessage |-> clock,
     successful |-> Undefined, failed |-> Undefined]

\* the window recordMessageSent creates lazily
NewWindowByRecord ==
    [count |-> 0, groups |-> {}, firstMessage |-> clock,
     successful |-> 0, failed |-> 0]

WithWindow(ua, u, fresh) ==
    IF ua[ActivityKey(u, CurrentHour)] = NoActivity
    THEN [ua EXCEPT ![ActivityKey(u, CurrentHour)] = fresh]
    ELSE ua

\* x++ on a field that may be undefined
Incr(x) == IF x >= 0 THEN x + 1 ELSE NaN

\* a canSendMessage that never looks at settings.enabled
CanSendReasonAlwaysOn(u, g) ==
    LET act == WithWindow(userActivity, u, NewWindowByCheck)[ActivityKey(u, CurrentHour)]
    IN  IF IsUserBlocked(u) THEN "blocked"
        ELSE IF act.count >= settings.maxMessagesPerHour THEN "rate_limit"
        ELSE "allowed"

\* canSendMessage: the reason it returns ("allowed" when it allows)
CanSendReason(u, g) ==
    LET act == WithWindow(userActivity, u, NewWindowByCheck)[ActivityKey(u, CurrentHour)]
    IN  IF ~settings.enabled THEN "allowed"
        ELSE IF IsUserBlocked(u) THEN "blocked"
        ELSE IF act.count >= settings.maxMessagesPerHour THEN "rate_limit"
        ELSE IF /\ g \in act.groups
                /\ act.count > 0
                /\ clock - act.firstMessage < DuplicateWindowMinutes
             THEN "duplicate_group"
        ELSE "allowed"

\* canSendMessage: the block map it leaves
CanSendBlocks(u, g) ==
    IF ~settings.enabled \/ IsUserBlocked(u) THEN blockedUsers
    ELSE IF CanSendReason(u, g) = "rate_limit"
         THEN BlockUser(AfterIsUserBlocked(u), u, settings.cooldownMinutes)
         ELSE AfterIsUserBlocked(u)

\* canSendMessage: the windows it leaves
CanSendActivity(u, g) ==
    IF ~settings.enabled \/ IsUserBlocked(u) THEN userActivity
    ELSE WithWindow(userActivity, u, NewWindowByCheck)

\* recordMessageSent counting only the sends that succeeded
RecordActivitySuccessOnly(u, g, success) ==
    LET ua == WithWindow(userActivity, u, NewWindowByRecord)
        k == ActivityKey(u, CurrentHour)
    IN  IF success
        THEN [ua EXCEPT ![k].count = @ + 1, ![k].groups = @ \cup {g},
                        ![k].successful = Incr(@)]
        ELSE [ua EXCEPT ![k].failed = Incr(@)]

\* recordMessageSent: the windows it leaves
RecordActivity(u, g, success) ==
    LET ua == WithWindow(userActivity, u, NewWindowByRecord)
        k == ActivityKey(u, CurrentHour)
    IN  [ua EXCEPT ![k] =
            [count |-> ua[k].count + 1,
             groups |-> ua[k].groups \cup {g},
             firstMessage |-> ua[k].firstMessage,
             successful |-> IF success THEN Incr(ua[k].successful) ELSE ua[k].successful,
             failed |-> IF success THEN ua[k].failed ELSE Incr(ua[k].failed)]]

NoCheck == [none |-> TRUE]
NoOp == [none |-> TRUE]

RECURSIVE SumOver(_, _)
SumOver(f, S) ==
    IF S = {} THEN 0
    ELSE LET x == CHOOSE y \in S : TRUE IN f[x] + SumOver(f, S \ {x})

TotalRecorded == SumOver(recorded, Users)

\* a caller asks canSendMessage(u, g); it goes on to send only when allowed
CanSendMessage(w, u, g) ==
    /\ UNCHANGED <<sessVars, schedVars>>
    /\ rw[w].pc = "idle"
    /\ TotalRecorded + Cardinality({x \in RateWorkers : rw[x].pc = "approved"}) < MaxSends
    /\ lastCheck' = [user |-> u, group |-> g,
                     reason |-> CanSendReason(u, g),
                     hadBlock |-> blockedUsers[u] # NoBlock,
                     unblockTime |-> IF blockedUsers[u] # NoBlock
                                     THEN blockedUsers[u].unblockTime ELSE 0]
    /\ blockedUsers' = CanSendBlocks(u, g)
    /\ userActivity' = CanSendActivity(u, g)
    /\ rw' = [rw EXCEPT ![w] =
                IF CanSendReason(u, g) = "allowed"
                THEN [pc |-> "approved", user |-> u, group |-> g]
                ELSE @]
    /\ everBlocked' = [everBlocked EXCEPT ![u] = @ \/ CanSendReason(u, g) = "rate_limit"]
    /\ UNCHANGED lastTargeted
    /\ lastOp' = NoOp
    /\ UNCHANGED <<clock, settings, recorded>>

\* the caller has attempted the send and records it
RecordMessageSent(w, success) ==
    /\ UNCHANGED <<sessVars, schedVars>>
    /\ rw[w].pc = "approved"
    /\ userActivity' = RecordActivity(rw[w].user, rw[w].group, success)
    /\ recorded' = [recorded EXCEPT ![rw[w].user] = @ + 1]
    /\ rw' = [rw EXCEPT ![w] = [pc |-> "idle", user |-> "", group |-> ""]]
    /\ lastCheck' = NoCheck
    /\ UNCHANGED lastTargeted
    /\ lastOp' = NoOp
    /\ UNCHANGED <<clock, settings, blockedUsers, everBlocked>>

\* blockUser(userId, minutes) called directly
BlockUserCall(u, minutes) ==
    /\ UNCHANGED <<sessVars, schedVars>>
    /\ blockedUsers' = BlockUser(blockedUsers, u, minutes)
    /\ lastCheck' = NoCheck
    /\ everBlocked' = [everBlocked EXCEPT ![u] = TRUE]
    /\ UNCHANGED lastTargeted
    /\ lastOp' = NoOp
    /\ UNCHANGED <<clock, settings, userActivity, rw, recorded>>

\* a minute passes
RateTick ==
    /\ UNCHANGED <<sessVars, schedVars>>
    /\ clock < StartMinute + MaxMinutes
    /\ clock' = clock + 1
    /\ lastCheck' = NoCheck
    /\ UNCHANGED lastTargeted
    /\ lastOp' = NoOp
    /\ UNCHANGED <<settings, userActivity, blockedUsers, rw, recorded, everBlocked>>

RateInit ==
    /\ clock = StartMinute
    /\ settings \in SettingsChoices
    /\ userActivity = [k \in Users \X Hours |-> NoActivity]
    /\ blockedUsers = [u \in Users |-> NoBlock]
    /\ rw = [w \in RateWorkers |-> [pc |-> "idle", user |-> "", group |-> ""]]
    /\ recorded = [u \in Users |-> 0]
    /\ lastCheck = NoCheck
    /\ everBlocked = [u \in Users |-> FALSE]
    /\ lastOp = NoOp
    /\ lastTargeted = [k \in Users \X Groups |-> -1]

\* the characters of a tenant id: "u1" for the first tenant and an id with a
\* '-' in it, "9f-a2", for the second (the ids the server makes are UUIDs)
IdString(u) == IF u = "u1" THEN <<117, 49>> ELSE <<57, 102, 45, 97, 50>>

\* moment#toISOString of the hour bucket h hours after the first hour of
\* 2025-01-30, up to the hour: "2025-01-DDTHH" (what follows is ":00:00.000Z"
\* for every bucket)
IsoHour(h) ==
    LET day == 30 + (h \div 24)
        hh == h % 24
    IN  <<50, 48, 50, 53, 45, 48, 49, 45, 48 + (day \div 10), 48 + (day % 10), 84,
          48 + (hh \div 10), 48 + (hh % 10)>>

\* `${userId}-${currentHour}`, as the string it is
KeyString(u, h) == IdString(u) \o <<45>> \o IsoHour(h)

\* key.split('-').slice(1).join('-'): what follows the first '-'
RECURSIVE AfterFirstDash(_)
AfterFirstDash(str) ==
    IF str = <<>> THEN <<>>
    ELSE IF Head(str) = 45 THEN Tail(str) ELSE AfterFirstDash(Tail(str))

\* a < b on strings
RECURSIVE StrLess(_, _)
StrLess(a, b) ==
    IF b = <<>> THEN FALSE
    ELSE IF a = <<>> THEN TRUE
    ELSE IF Head(a) # Head(b) THEN Head(a) < Head(b)
    ELSE StrLess(Tail(a), Tail(b))

\* cleanupOldData: the hourKey it computes for the key of window k
HourKey(k) == AfterFirstDash(KeyString(k[1], k[2]))

\* cleanupOldData: the windows it deletes (hourKey < cutoffTime)
OldWindows ==
    {k \in DOMAIN userActivity :
        /\ userActivity[k] # NoActivity
        /\ StrLess(HourKey(k), IsoHour(CurrentHour - 2))}

\* cleanupOldData: the blocks it deletes (moment().isAfter(unblockTime))
ExpiredBlocks ==
    {u \in Users : blockedUsers[u] # NoBlock /\ clock > blockedUsers[u].unblockTime}

\* cleanupOldData()
CleanupOldDataCall ==
    /\ UNCHANGED <<sessVars, schedVars>>
    /\ userActivity' = [k \in DOMAIN userActivity |->
                           IF k \in OldWindows THEN NoActivity ELSE userActivity[k]]
    /\ blockedUsers' = [u \in Users |->
                           IF u \in ExpiredBlocks THEN NoBlock ELSE blockedUsers[u]]
    /\ lastCheck' = NoCheck
    /\ UNCHANGED lastTargeted
    /\ lastOp' = [op |-> "cleanupOldData",
                  windows |-> Cardinality(OldWindows),
                  blocks |-> Cardinality(ExpiredBlocks)]
    /\ UNCHANGED <<clock, settings, rw, recorded, everBlocked>>

\* an hour passes
CleanupHourPasses ==
    /\ UNCHANGED <<sessVars, schedVars>>
    /\ clock + MinutesPerHour <= StartMinute + MaxCleanupHours * MinutesPerHour
    /\ clock' = clock + MinutesPerHour
    /\ lastCheck' = NoCheck
    /\ UNCHANGED lastTargeted
    /\ lastOp' = NoOp
    /\ UNCHANGED <<settings, userActivity, blockedUsers, rw, recorded, everBlocked>>

\* recordMessageSent(userId, groupId, success) with the time of the send noted
RecordedSend(u, g, success) ==
    /\ UNCHANGED <<sessVars, schedVars>>
    /\ TotalRecorded < MaxSends
    /\ userActivity' = RecordActivity(u, g, success)
    /\ recorded' = [recorded EXCEPT ![u] = @ + 1]
    /\ lastCheck' = NoCheck
    /\ lastOp' = NoOp
    /\ lastTargeted' = [lastTargeted EXCEPT ![<<u, g>>] = clock]
    /\ UNCHANGED <<clock, settings, blockedUsers, rw, everBlocked>>

\* a minute of the hour explored for the duplicate check passes
DuplicateTick ==
    /\ UNCHANGED <<sessVars, schedVars>>
    /\ clock < MinutesPerHour + MaxDuplicateMinutes
    /\ clock' = clock + 1
    /\ lastCheck' = NoCheck
    /\ lastOp' = NoOp
    /\ UNCHANGED <<settings, userActivity, blockedUsers, rw, recorded, everBlocked,
                   lastTargeted>>

\* canSendMessage(userId, groupId) called directly
CanSendMessageCall(u, g) ==
    /\ UNCHANGED <<sessVars, schedVars>>
    /\ lastCheck' = [user |-> u, group |-> g,
                     reason |-> CanSendReason(u, g),
                     hadBlock |-> blockedUsers[u] # NoBlock,
                     unblockTime |-> IF blockedUsers[u] # NoBlock
                                     THEN blockedUsers[u].unblockTime ELSE 0]
    /\ blockedUsers' = CanSendBlocks(u, g)
    /\ userActivity' = CanSendActivity(u, g)
    /\ everBlocked' = [everBlocked EXCEPT ![u] = @ \/ CanSendReason(u, g) = "rate_limit"]
    /\ UNCHANGED lastTargeted
    /\ lastOp' = NoOp
    /\ UNCHANGED <<clock, settings, rw, recorded>>

\* recordMessageSent(userId, groupId, success) called directly
RecordMessageSentCall(u, g, success) ==
    /\ UNCHANGED <<sessVars, schedVars>>
    /\ TotalRecorded < MaxSends
    /\ userActivity' = RecordActivity(u, g, success)
    /\ recorded' = [recorded EXCEPT ![u] = @ + 1]
    /\ lastCheck' = NoCheck
    /\ UNCHANGED lastTargeted
    /\ lastOp' = NoOp
    /\ UNCHANGED <<clock, settings, blockedUsers, rw, everBlocked>>

\* getUserActivity(userId): the current-hour window, or an empty one
GetUserActivity(u) ==
    IF userActivity[ActivityKey(u, CurrentHour)] = NoActivity
    THEN [count |-> 0, groups |-> {}, firstMessage |-> Undefined,
          successful |-> 0, failed |-> 0]
    ELSE userActivity[ActivityKey(u, CurrentHour)]

\* a validateBroadcast that overlooks the groups already messaged
NoDuplicateGroups(u, groups) == <<>>

\* validateBroadcast: groups.filter(groupId => activity.groups.has(groupId))
DuplicateGroups(u, groups) ==
    SelectSeq(groups, LAMBDA g : g \in GetUserActivity(u).groups)

\* validateBroadcast: settings.maxMessagesPerHour - activity.count
RemainingMessages(u) == settings.maxMessagesPerHour - GetUserActivity(u).count

Valid == [valid |-> TRUE, reason |-> "", maxGroups |-> Undefined,
          duplicateGroups |-> <<>>]

\* validateBroadcast(userId, groups): what it returns
ValidateBroadcast(u, groups) ==
    IF ~settings.enabled THEN Valid
    ELSE IF IsUserBlocked(u)
         THEN [Valid EXCEPT !.valid = FALSE, !.reason = "user_blocked"]
    ELSE IF Len(groups) > RemainingMessages(u)
         THEN [Valid EXCEPT !.valid = FALSE, !.reason = "rate_limit",
                            !.maxGroups = RemainingMessages(u)]
    ELSE IF Len(DuplicateGroups(u, groups)) > 0
         THEN [Valid EXCEPT !.valid = FALSE, !.reason = "duplicate_groups",
                            !.duplicateGroups = DuplicateGroups(u, groups)]
    ELSE Valid

\* validateBroadcast(userId, groups) called
ValidateBroadcastCall(u, groups) ==
    /\ UNCHANGED <<sessVars, schedVars>>
    /\ UNCHANGED lastTargeted
    /\ lastOp' = [op |-> "validateBroadcast", user |-> u, groups |-> groups,
                  result |-> ValidateBroadcast(u, groups)]
    /\ blockedUsers' = IF settings.enabled THEN AfterIsUserBlocked(u) ELSE blockedUsers
    /\ lastCheck' = NoCheck
    /\ UNCHANGED <<clock, settings, userActivity, rw, recorded, everBlocked>>

\* an unblock that clears the whole block map
UnblockEveryUser(bu, u) == [v \in Users |-> NoBlock]

\* unblockUser: this.blockedUsers.delete(userId)
UnblockUser(bu, u) == [bu EXCEPT ![u] = NoBlock]

\* unblockUser(userId) called; it returns whether a record was there
UnblockUserCall(u) ==
    /\ UNCHANGED <<sessVars, schedVars>>
    /\ blockedUsers' = UnblockUser(blockedUsers, u)
    /\ UNCHANGED lastTargeted
    /\ lastOp' = [op |-> "unblockUser", user |-> u,
                  result |-> blockedUsers[u] # NoBlock]
    /\ lastCheck' = NoCheck
    /\ UNCHANGED <<clock, settings, userActivity, rw, recorded, everBlocked>>

\* the block records there are
BlockedCount == Cardinality({u \in Users : blockedUsers[u] # NoBlock})

\* emergencyUnblockAll(); it returns blockedUsers.size as it was
EmergencyUnblockAllCall ==
    /\ UNCHANGED <<sessVars, schedVars>>
    /\ blockedUsers' = [u \in Users |-> NoBlock]
    /\ UNCHANGED lastTargeted
    /\ lastOp' = [op |-> "emergencyUnblockAll", result |-> BlockedCount]
    /\ lastCheck' = NoCheck
    /\ UNCHANGED <<clock, settings, userActivity, rw, recorded, everBlocked>>

(***************************************************************************)
(* WhatsAppService: sessions (src/services/whatsappService.js)             *)
(***************************************************************************)
NoConn == [none |-> TRUE]

SockIds == 1 .. MaxSocks

\* DisconnectReason of a connection close, as the handler classifies it
CloseReasons == {"recoverable", "loggedOut", "forbidden"}

\* a socket whose close event has not been delivered still calls its handlers
LiveSocks(u) == {s \in 1 .. Len(socks) : socks[s].user = u /\ ~socks[s].ended}

\* isUserConnected: conn?.connected && conn.sock?.ws?.readyState === 1
IsUserConnected(u) ==
    /\ connections[u] # NoConn
    /\ connections[u].connected
    /\ socks[connections[u].sock].ws = "open"

\* connectUser calls that have passed their entry check and will make a socket
Connecting == SumOver(connecting, Users)

\* connectUser up to its first await: an entry that is connected returns null,
\* any other entry is deleted, and the call goes on to load the auth state
ConnectUserBeginWithin(u, maxSocks) ==
    /\ Len(socks) + Connecting < maxSocks
    /\ IF connections[u] # NoConn /\ connections[u].connected
       THEN UNCHANGED <<connections, connecting>>
       ELSE /\ connections' = [connections EXCEPT ![u] = NoConn]
            /\ connecting' = [connecting EXCEPT ![u] = @ + 1]

ConnectUserBegin(u) == ConnectUserBeginWithin(u, MaxSocks)

\* connectUser requested through the API, while fewer than maxSocks sockets
\* are made or about to be made
ConnectUserCallWithin(u, maxSocks) ==
    /\ ConnectUserBeginWithin(u, maxSocks)
    /\ disconnected' = [disconnected EXCEPT ![u] = FALSE]
    /\ UNCHANGED <<qrCodes, socks, timers, loggingOut, disp, rateVars, schedVars>>

ConnectUserCall(u) == ConnectUserCallWithin(u, MaxSocks)

\* a timer that is dropped when it fires, without calling connectUser
ReconnectTimerDropped(u) == timers[u] > 0 /\ UNCHANGED vars

\* the reconnect timer set by a close handler fires: connectUser(userId)
ReconnectTimerFiresWithin(u, maxSocks) ==
    /\ timers[u] > 0
    /\ timers' = [timers EXCEPT ![u] = @ - 1]
    /\ ConnectUserBeginWithin(u, maxSocks)
    /\ UNCHANGED <<qrCodes, socks, loggingOut, disconnected, disp, rateVars, schedVars>>

ReconnectTimerFires(u) == ReconnectTimerFiresWithin(u, MaxSocks)

\* connectUser after the auth state is loaded: makeWASocket, the handlers are
\* registered and the entry { sock, connected: false } is stored
MakeSocketWithin(u, maxSocks) ==
    /\ connecting[u] > 0
    /\ Len(socks) < maxSocks
    /\ connecting' = [connecting EXCEPT ![u] = @ - 1]
    /\ socks' = Append(socks, [user |-> u, ws |-> "connecting",
                               qrGenerated |-> FALSE, ended |-> FALSE])
    /\ connections' = [connections EXCEPT ![u] =
                          [sock |-> Len(socks) + 1, connected |-> FALSE]]
    /\ UNCHANGED <<qrCodes, timers, loggingOut, disconnected,
                   disp, rateVars, schedVars>>

ConnectUserMakeSocket(u) == MakeSocketWithin(u, MaxSocks)

\* the pairing wait of the connectUser call that made socket s is over
\* (config.qrTimeout has passed) while the entry stored by the call is still
\* not connected: the call returns the challenge there is, or null; the entry,
\* the challenge and the socket stay as they are
PairingWaitEnds(s) ==
    /\ s \in 1 .. Len(socks)
    /\ connections[socks[s].user] = [sock |-> s, connected |-> FALSE]
    /\ UNCHANGED lastTargeted
    /\ lastOp' = [op |-> "connectUser", user |-> socks[s].user,
                  result |-> IF qrCodes[socks[s].user] THEN "qr" ELSE "null"]
    /\ UNCHANGED <<connVars, disp, schedVars>>
    /\ UNCHANGED <<clock, settings, userActivity, blockedUsers, rw, recorded,
                   lastCheck, everBlocked>>

\* connectUser's catch: ensureDir / useMultiFileAuthState / makeWASocket threw
ConnectUserFails(u) ==
    /\ connecting[u] > 0
    /\ connecting' = [connecting EXCEPT ![u] = @ - 1]
    /\ connections' = [connections EXCEPT ![u] = NoConn]
    /\ qrCodes' = [qrCodes EXCEPT ![u] = FALSE]
    /\ UNCHANGED <<socks, timers, loggingOut, disconnected,
                   disp, rateVars, schedVars>>

\* the socket's transport opens (ws.readyState becomes 1)
TransportOpens(s) ==
    /\ s \in 1 .. Len(socks)
    /\ ~socks[s].ended
    /\ socks[s].ws = "connecting"
    /\ socks' = [socks EXCEPT ![s].ws = "open"]
    /\ UNCHANGED <<connections, qrCodes, timers, connecting, loggingOut,
                   disconnected, disp, rateVars, schedVars>>

\* the socket's transport dies before any close event is delivered
TransportDrops(s) ==
    /\ s \in 1 .. Len(socks)
    /\ ~socks[s].ended
    /\ socks[s].ws = "open"
    /\ socks' = [socks EXCEPT ![s].ws = "closed"]
    /\ UNCHANGED <<connections, qrCodes, timers, connecting, loggingOut,
                   disconnected, disp, rateVars, schedVars>>

\* connection.update with a qr, on socket s
OnQr(s) ==
    /\ s \in 1 .. Len(socks)
    /\ ~socks[s].ended
    /\ socks[s].ws = "open"
    /\ ~socks[s].qrGenerated
    /\ socks' = [socks EXCEPT ![s].qrGenerated = TRUE]
    /\ qrCodes' = [qrCodes EXCEPT ![socks[s].user] = TRUE]
    /\ UNCHANGED <<connections, timers, connecting, loggingOut, disconnected,
                   disp, rateVars, schedVars>>

\* connection.update with connection === 'open', on socket s
OnOpen(s) ==
    /\ s \in 1 .. Len(socks)
    /\ ~socks[s].ended
    /\ socks[s].ws = "open"
    /\ connections' = [connections EXCEPT ![socks[s].user] =
                          [sock |-> s, connected |-> TRUE]]
    /\ qrCodes' = [qrCodes EXCEPT ![socks[s].user] = FALSE]
    /\ UNCHANGED <<socks, timers, connecting, loggingOut, disconnected,
                   disp, rateVars, schedVars>>

\* the close handler of socket s: the entry and the challenge of the user are
\* deleted, and a reconnect is scheduled unless the loss is terminal
CloseHandler(s, reason) ==
    /\ socks' = [socks EXCEPT ![s].ended = TRUE, ![s].ws = "closed"]
    /\ connections' = [connections EXCEPT ![socks[s].user] = NoConn]
    /\ qrCodes' = [qrCodes EXCEPT ![socks[s].user] = FALSE]
    /\ timers' = [timers EXCEPT ![socks[s].user] =
                    IF reason \notin {"loggedOut", "forbidden"} THEN @ + 1 ELSE @]

\* connection.update with connection === 'close', on socket s
OnClose(s, reason) ==
    /\ s \in 1 .. Len(socks)
    /\ ~socks[s].ended
    /\ CloseHandler(s, reason)
    /\ UNCHANGED <<connecting, loggingOut, disconnected, disp,
                   rateVars, schedVars>>

\* disconnectUser up to the end of sock.logout(): with an entry, the socket is
\* logged out (its close event, classified loggedOut, reaches the handler);
\* without an entry the call returns at once
DisconnectUserCall(u) ==
    /\ u \notin loggingOut
    /\ IF connections[u] # NoConn
       THEN /\ CloseHandler(connections[u].sock, "loggedOut")
            /\ loggingOut' = loggingOut \cup {u}
            /\ UNCHANGED disconnected
       ELSE /\ disconnected' = [disconnected EXCEPT ![u] = (connecting[u] = 0)]
            /\ UNCHANGED <<connections, qrCodes, socks, timers, loggingOut>>
    /\ UNCHANGED <<connecting, disp, rateVars, schedVars>>

\* disconnectUser after sock.logout(): the entry is deleted and the call returns
DisconnectUserReturns(u) ==
    /\ u \in loggingOut
    /\ loggingOut' = loggingOut \ {u}
    /\ connections' = [connections EXCEPT ![u] = NoConn]
    /\ disconnected' = [disconnected EXCEPT ![u] = (connecting[u] = 0)]
    /\ UNCHANGED <<qrCodes, socks, timers, connecting, disp,
                   rateVars, schedVars>>

\* a sweep that takes every entry for stale
EveryEntry == {u \in Users : connections[u] # NoConn}

\* cleanupConnections: the entries with "!conn.sock || conn.sock.ws.readyState !== 1"
StaleEntries ==
    {u \in Users : connections[u] # NoConn /\ socks[connections[u].sock].ws # "open"}

\* cleanupConnections(): the stale entries and their challenges are deleted,
\* 'whatsapp-disconnected' is emitted to each of their users and their number
\* is returned
CleanupConnectionsCall ==
    /\ connections' = [u \in Users |->
                          IF u \in StaleEntries THEN NoConn ELSE connections[u]]
    /\ qrCodes' = [u \in Users |-> IF u \in StaleEntries THEN FALSE ELSE qrCodes[u]]
    /\ UNCHANGED lastTargeted
    /\ lastOp' = [op |-> "cleanupConnections",
                  emitted |-> [u \in Users |-> IF u \in StaleEntries THEN 1 ELSE 0],
                  result |-> Cardinality(StaleEntries)]
    /\ UNCHANGED <<socks, timers, connecting, loggingOut, disconnected, disp,
                   schedVars>>
    /\ UNCHANGED <<clock, settings, userActivity, blockedUsers, rw, recorded,
                   lastCheck, everBlocked>>

ConnInit ==
    /\ connections = [u \in Users |-> NoConn]
    /\ qrCodes = [u \in Users |-> FALSE]
    /\ socks = <<>>
    /\ timers = [u \in Users |-> 0]
    /\ connecting = [u \in Users |-> 0]
    /\ loggingOut = {}
    /\ disconnected = [u \in Users |-> FALSE]

(***************************************************************************)
(* WhatsAppService: dispatch (sendAd / broadcastAd)                        *)
(***************************************************************************)
Dispatchers == {"d1", "d2"}

\* ad.groups of the campaigns dispatched: the target groups in listed order
GroupLists == {<<>>, <<"g1">>, <<"g1", "g2">>, <<"g2", "g1", "g2">>}

IdleDispatch ==
    [pc |-> "idle", user |-> "", groups |-> <<>>, idx |-> 0, sock |-> 0,
     total |-> 0, sent |-> 0, failed |-> 0, attempts |-> <<>>, delays |-> 0,
     ad |-> "", task |-> 0]

\* sendAd's guard: "if (!conn || !this.isUserConnected(userId)) throw"
SendAdGuard(u) == connections[u] # NoConn /\ IsUserConnected(u)

\* broadcastAd(userId, ad) by dispatcher d, up to its first await: a user that
\* is not connected is rejected up front; an empty list returns at once; else
\* sendAd issues the send to the first group
BroadcastAdBegin(d, u, groups, ad, task) ==
    IF ~IsUserConnected(u)
    THEN [IdleDispatch EXCEPT !.pc = "rejected", !.user = u, !.groups = groups,
                              !.ad = ad, !.task = task]
    ELSE [IdleDispatch EXCEPT
            !.pc = IF groups = <<>> THEN "done" ELSE "sending",
            !.user = u, !.groups = groups, !.ad = ad, !.task = task,
            !.total = Len(groups),
            !.idx = IF groups = <<>> THEN 0 ELSE 1,
            !.sock = IF groups = <<>> THEN 0 ELSE connections[u].sock,
            !.attempts = IF groups = <<>> THEN <<>> ELSE <<groups[1]>>]

\* conn.sock.sendMessage settles: the send is counted as sent or as failed
\* (it cannot succeed on a transport that is not open), and the 2000 ms
\* pacing delay starts
SendAdSettles(d, ok) ==
    /\ disp[d].pc = "sending"
    /\ ok => socks[disp[d].sock].ws = "open"
    /\ disp' = [disp EXCEPT ![d].pc = "pacing",
                            ![d].sent = IF ok THEN @ + 1 ELSE @,
                            ![d].failed = IF ok THEN @ ELSE @ + 1]

\* the pacing delay of dispatcher d is over: the loop goes to the next group,
\* where sendAd throws when the user is no longer connected, or the results
\* are emitted and returned after the last group
AfterPacing(d) ==
    LET r == disp[d]
    IN  IF r.idx = Len(r.groups)
        THEN [r EXCEPT !.pc = "done", !.delays = @ + 1]
        ELSE IF ~SendAdGuard(r.user)
        THEN [r EXCEPT !.pc = "thrown", !.delays = @ + 1]
        ELSE [r EXCEPT !.pc = "sending", !.delays = @ + 1,
                       !.idx = @ + 1,
                       !.sock = connections[r.user].sock,
                       !.attempts = Append(@, r.groups[r.idx + 1])]

\* broadcastAd(userId, ad) called directly
BroadcastAdCall(d, u, groups) ==
    /\ disp[d].pc = "idle"
    /\ disp' = [disp EXCEPT ![d] = BroadcastAdBegin(d, u, groups, "", 0)]
    /\ UNCHANGED <<connVars, rateVars, schedVars>>

\* the send in flight of a directly called broadcastAd settles
SendSettles(d, ok) ==
    /\ SendAdSettles(d, ok)
    /\ UNCHANGED <<connVars, rateVars, schedVars>>

\* the pacing delay of a directly called broadcastAd is over
PacingEnds(d) ==
    /\ disp[d].pc = "pacing"
    /\ disp[d].task = 0
    /\ disp' = [disp EXCEPT ![d] = AfterPacing(d)]
    /\ UNCHANGED <<connVars, rateVars, schedVars>>

\* the caller of a directly called broadcastAd has its result or exception
BroadcastAdReturns(d) ==
    /\ disp[d].pc \in {"done", "thrown", "rejected"}
    /\ disp' = [disp EXCEPT ![d] = IdleDispatch]
    /\ UNCHANGED <<connVars, rateVars, schedVars>>

DispInit == disp = [d \in Dispatchers |-> IdleDispatch]

(***************************************************************************)
(* Calendar and clock (moment-timezone and node-cron, America/Sao_Paulo)   *)
(***************************************************************************)
\* the date on which the process is started
StartDate == [y |-> 2025, m |-> 1, d |-> 30]

\* the times of day (hours, minute 0) at which the clock is observed: a slot
\* begins at each; every call is made strictly within a slot
DayHours == <<10, 18>>

NoDate == [none |-> TRUE]
NoMoment == [none |-> TRUE]
\* the "*" of a cron field
Star == -1

IsLeap(y) == (y % 4 = 0 /\ y % 100 # 0) \/ y % 400 = 0

DaysInMonth(y, m) ==
    IF m = 2 THEN (IF IsLeap(y) THEN 29 ELSE 28)
    ELSE IF m \in {4, 6, 9, 11} THEN 30 ELSE 31

RECURSIVE DaysBeforeMonth(_, _)
DaysBeforeMonth(y, m) ==
    IF m <= 1 THEN 0 ELSE DaysBeforeMonth(y, m - 1) + DaysInMonth(y, m - 1)

RECURSIVE DaysBeforeYear(_)
DaysBeforeYear(y) ==
    IF y <= StartDate.y THEN 0
    ELSE DaysBeforeYear(y - 1) + (IF IsLeap(y - 1) THEN 366 ELSE 365)

\* days since January 1st of the start year
DayNumber(date) ==
    DaysBeforeYear(date.y) + DaysBeforeMonth(date.y, date.m) + date.d - 1

\* moment#day(): 0 is Sunday; 2025-01-01 is a Wednesday
DayOfWeek(date) == (DayNumber(date) + 3) % 7

NextDay(date) ==
    IF date.d < DaysInMonth(date.y, date.m) THEN [date EXCEPT !.d = @ + 1]
    ELSE IF date.m < 12 THEN [date EXCEPT !.m = @ + 1, !.d = 1]
    ELSE [y |-> date.y + 1, m |-> 1, d |-> 1]

RECURSIVE AddDays(_, _)
AddDays(date, n) == IF n = 0 THEN date ELSE AddDays(NextDay(date), n - 1)

\* the day of month is clamped to the last day of the target month
ClampDay(y, m, d) ==
    [y |-> y, m |-> m, d |-> IF d > DaysInMonth(y, m) THEN DaysInMonth(y, m) ELSE d]

\* moment#add(1, unit) on a local date
AddUnit(date, repeat) ==
    CASE repeat = "daily" -> NextDay(date)
      [] repeat = "weekly" -> AddDays(date, 7)
      [] repeat = "monthly" ->
            IF date.m < 12 THEN ClampDay(date.y, date.m + 1, date.d)
            ELSE ClampDay(date.y + 1, 1, date.d)
      [] repeat = "yearly" -> ClampDay(date.y + 1, date.m, date.d)
      [] OTHER -> date

AddUnitToMoment(mt, repeat) == [mt EXCEPT !.date = AddUnit(@, repeat)]

\* moment#isBefore between two local times
IsBefore(a, b) ==
    \/ DayNumber(a.date) < DayNumber(b.date)
    \/ DayNumber(a.date) = DayNumber(b.date) /\ a.hour < b.hour

\* isBefore(moment()): the current time lies strictly within the slot begun
IsBeforeNow(mt) == ~IsBefore(now, mt)

\* the slot after mt
NextSlot(mt) ==
    IF mt.hour = DayHours[Len(DayHours)]
    THEN [date |-> NextDay(mt.date), hour |-> DayHours[1]]
    ELSE [date |-> mt.date,
          hour |-> DayHours[1 + CHOOSE i \in 1 .. Len(DayHours) : DayHours[i] = mt.hour]]

\* 'HH:mm' of scheduleTime
HourOf(t) == CASE t = "10:00" -> 10 [] t = "18:00" -> 18 [] OTHER -> 0

\* moment.tz(`${scheduleDate} ${scheduleTime}`, 'YYYY-MM-DD HH:mm', timezone)
ParseDateTime(ad) == [date |-> ad.scheduleDate, hour |-> HourOf(ad.scheduleTime)]

\* moment#isValid: the parsed fields denote a day of the calendar
IsValidDate(date) ==
    /\ date.m \in 1 .. 12
    /\ date.d \in 1 .. DaysInMonth(date.y, date.m)

\* node-cron: a task's expression matches the minute that begins
CronMatches(c, mt) ==
    /\ c.hour = mt.hour
    /\ c.dom = Star \/ c.dom = mt.date.d
    /\ c.month = Star \/ c.month = mt.date.m
    /\ c.dow = Star \/ c.dow = DayOfWeek(mt.date)

(***************************************************************************)
(* WhatsAppBotPanel: the schedules of the single-session panel             *)
(* (src/unnamed/part_001)                                                  *)
(***************************************************************************)
MinutesInDay == 24 * MinutesPerHour

\* schedule.nextRun when calculateNextRun returned null
NoRun == [none |-> TRUE]
NoFiring == [none |-> TRUE]

\* the panel's clock when it is first observed: Monday 09:59, in minutes since
\* Sunday 00:00
PanelStart == MinutesInDay + HourOf("10:00") * MinutesPerHour - 1

\* the days lists and times a schedule is created with
PanelDayLists == {<<>>, <<"monday">>, <<"tuesday">>, <<"monday", "tuesday">>}
PanelTimes == {"10:00", "18:00"}

\* calculateNextRun's dayMap; a name it does not have maps to undefined
DayMap(day) ==
    CASE day = "sunday" -> 0 [] day = "monday" -> 1 [] day = "tuesday" -> 2
      [] day = "wednesday" -> 3 [] day = "thursday" -> 4 [] day = "friday" -> 5
      [] day = "saturday" -> 6 [] OTHER -> Undefined

\* calculateNextRun(days, time) called at minute t: the first of today and the
\* six days after it that is a target day and whose time is after t, or null
CalculateNextRun(days, time, t) ==
    LET targetDays == {DayMap(days[i]) : i \in DOMAIN days}
        checkDate(i) == ((t \div MinutesInDay) + i) * MinutesInDay
                            + HourOf(time) * MinutesPerHour
        hits == {i \in 0 .. (DaysPerWeek - 1) :
                    /\ ((checkDate(i) \div MinutesInDay) % DaysPerWeek) \in targetDays
                    /\ checkDate(i) > t}
    IN  IF hits = {} THEN NoRun
        ELSE [at |-> checkDate(CHOOSE i \in hits : \A j \in hits : i <= j)]

\* new Date(schedule.nextRun): null gives the epoch
RunMinute(nextRun) == IF nextRun = NoRun THEN 0 ELSE nextRun.at

PanelOff ==
    [now |-> PanelStart, isConnected |-> FALSE, sendable |-> FALSE,
     schedule |-> [isActive |-> FALSE, days |-> <<>>, time |-> "10:00",
                   nextRun |-> NoRun],
     running |-> 0, lastFired |-> NoFiring, refired |-> FALSE]

\* the cron job of startCronJobs: a minute begins and checkSchedules() runs up
\* to its await. sendAdToSelectedGroups rejects at once when the ad is missing
\* or inactive or no group is selected, and the catch leaves the schedule as
\* it is; otherwise the send is under way
CheckSchedules ==
    /\ panel.now < PanelStart + MaxPanelMinutes
    /\ LET t == panel.now + 1
           fire == /\ panel.isConnected
                   /\ panel.schedule.isActive
                   /\ t >= RunMinute(panel.schedule.nextRun)
       IN  panel' = [panel EXCEPT
                        !.now = t,
                        !.running = IF fire /\ panel.sendable THEN @ + 1 ELSE @,
                        !.lastFired = IF fire THEN [run |-> panel.schedule.nextRun]
                                      ELSE @,
                        !.refired = @ \/ (fire /\ panel.lastFired
                                                    = [run |-> panel.schedule.nextRun])]
    /\ UNCHANGED <<now, ads, tasks, scheduledTasks, due, fires, lastCall>>
    /\ UNCHANGED <<rateVars, sessVars>>

\* a sendAdToSelectedGroups awaited by checkSchedules returns its results:
\* nextRun is computed anew, at the time of the return
PanelSendReturns ==
    /\ panel.running > 0
    /\ panel' = [panel EXCEPT
                    !.running = @ - 1,
                    !.schedule.nextRun =
                        CalculateNextRun(panel.schedule.days, panel.schedule.time,
                                         panel.now)]
    /\ UNCHANGED <<now, ads, tasks, scheduledTasks, due, fires, lastCall>>
    /\ UNCHANGED <<rateVars, sessVars>>

\* POST /api/schedules/:scheduleId/toggle
ToggleScheduleRoute ==
    /\ panel' = [panel EXCEPT !.schedule.isActive = ~@]
    /\ UNCHANGED <<now, ads, tasks, scheduledTasks, due, fires, lastCall>>
    /\ UNCHANGED <<rateVars, sessVars>>

(***************************************************************************)
(* DatabaseService (ads) and SchedulerService                              *)
(***************************************************************************)
\* the campaign the routes work on
AdIds == {"a1"}
\* the campaigns there can be in db.ads
AllAdIds == AdIds \cup {"a2"}
Repeats == {"once", "daily", "weekly", "monthly", "yearly"}

NoAd == [none |-> TRUE]
DeletedAd == [deleted |-> TRUE]
NoEntry == [none |-> TRUE]
NoCall == [none |-> TRUE]

\* db.getAd(id) finds the ad
AdExists(a) == ads[a] # NoAd /\ ads[a] # DeletedAd

\* the state of the cron registry that scheduleAd / cancelScheduledAd work on
Registry == [scheduledTasks |-> scheduledTasks, tasks |-> tasks]

TaskIds == 1 .. MaxTasks
NoTask == [none |-> TRUE]

\* the callback of task t is running on a dispatch worker
Running(t) == \E d \in DOMAIN disp : disp[d].pc # "idle" /\ disp[d].task = t

\* an id for a new task
FreeTasks(tk) == {t \in TaskIds : tk[t] = NoTask}
NewTask(tk) == CHOOSE t \in FreeTasks(tk) : \A x \in FreeTasks(tk) : t <= x

\* a cancel that forgets the task without stopping it
KeepTask(tk, t) == tk

\* task.stop(); task.destroy(): the task fires no more; it is gone once no
\* callback of it is running
DestroyTask(tk, t) ==
    IF Running(t) THEN [tk EXCEPT ![t].live = FALSE] ELSE [tk EXCEPT ![t] = NoTask]

\* the started tasks of campaign a
LiveTasks(a) ==
    {t \in TaskIds : tasks[t] # NoTask /\ tasks[t].live /\ tasks[t].ad.id = a}

\* a cancel that drops every entry and stops every task
CancelEveryAd(S, a) ==
    [scheduledTasks |-> [b \in DOMAIN S.scheduledTasks |-> NoEntry],
     tasks |-> [t \in TaskIds |->
                  IF S.tasks[t] = NoTask THEN NoTask
                  ELSE IF Running(t) THEN [S.tasks[t] EXCEPT !.live = FALSE]
                  ELSE NoTask]]

\* a cancel that does nothing
CancelNothing(S, a) == S

\* a cancel that leaves a campaign alone while its callback is running
CancelUnlessRunning(S, a) ==
    IF S.scheduledTasks[a] # NoEntry /\ ~Running(S.scheduledTasks[a].task)
    THEN [scheduledTasks |-> [S.scheduledTasks EXCEPT ![a] = NoEntry],
          tasks |-> [S.tasks EXCEPT ![S.scheduledTasks[a].task] = NoTask]]
    ELSE S

\* cancelScheduledAd(adId)
CancelScheduledAd(S, a) ==
    IF S.scheduledTasks[a] # NoEntry
    THEN [scheduledTasks |-> [S.scheduledTasks EXCEPT ![a] = NoEntry],
          tasks |-> DestroyTask(S.tasks, S.scheduledTasks[a].task)]
    ELSE S

\* validateSchedule(scheduleDate, scheduleTime): what it returns
ValidateSchedule(date, time) ==
    IF date = NoDate \/ time = "" THEN [valid |-> FALSE, error |-> "required"]
    ELSE IF ~IsValidDate(date) THEN [valid |-> FALSE, error |-> "invalid"]
    ELSE IF IsBeforeNow(ParseDateTime([scheduleDate |-> date, scheduleTime |-> time]))
         THEN [valid |-> FALSE, error |-> "past"]
    ELSE [valid |-> TRUE, error |-> ""]

\* a scheduleAd that registers dates of the past as well
ScheduleAdPathWithPast(ad) ==
    IF ad.scheduleDate = NoDate \/ ad.scheduleTime = "" THEN "missing"
    ELSE IF ~IsValidDate(ad.scheduleDate) THEN "invalid"
    ELSE "scheduled"

\* the branch scheduleAd(ad) takes
ScheduleAdPath(ad) ==
    IF ad.scheduleDate = NoDate \/ ad.scheduleTime = "" THEN "missing"
    ELSE IF ~IsValidDate(ad.scheduleDate) THEN "invalid"
    ELSE IF IsBeforeNow(ParseDateTime(ad)) THEN "past"
    ELSE "scheduled"

\* what scheduleAd(ad) hands to its caller: every return is a bare return and
\* the catch swallows every exception
ScheduleAdReturn(ad) ==
    CASE ScheduleAdPath(ad) = "missing" -> "undefined"
      [] ScheduleAdPath(ad) = "invalid" -> "undefined"
      [] ScheduleAdPath(ad) = "past" -> "undefined"
      [] OTHER -> "undefined"

\* the cron expression per repeat kind (the minute field is always 0 here)
CronExpression(ad) ==
    LET dt == ParseDateTime(ad)
    IN  CASE ad.repeat = "daily" ->
                [hour |-> dt.hour, dom |-> Star, month |-> Star, dow |-> Star]
          [] ad.repeat = "weekly" ->
                [hour |-> dt.hour, dom |-> Star, month |-> Star,
                 dow |-> DayOfWeek(dt.date)]
          [] ad.repeat = "monthly" ->
                [hour |-> dt.hour, dom |-> dt.date.d, month |-> Star, dow |-> Star]
          [] OTHER ->
                [hour |-> dt.hour, dom |-> dt.date.d, month |-> dt.date.m,
                 dow |-> Star]

\* what the cron callback reads of the ad object it has captured
Captured(ad) ==
    [id |-> ad.id, userId |-> ad.userId, groups |-> ad.groups,
     repeat |-> ad.repeat, stats |-> ad.stats]

\* scheduleAd(ad); shared tells whether ad is the very object held in db.ads
ScheduleAd(S, ad, shared) ==
    IF ScheduleAdPath(ad) # "scheduled" THEN S
    ELSE LET C == CancelScheduledAd(S, ad.id)
             t == NewTask(C.tasks)
         IN  [scheduledTasks |->
                 [C.scheduledTasks EXCEPT ![ad.id] =
                     [task |-> t, cronExpression |-> CronExpression(ad),
                      nextExecution |-> ParseDateTime(ad), repeat |-> ad.repeat]],
              tasks |-> [C.tasks EXCEPT ![t] =
                            [ad |-> Captured(ad), cron |-> CronExpression(ad),
                             live |-> TRUE, shared |-> shared]]]

\* the record of a scheduleAd(ad) call that has just returned
CallOf(ad) ==
    [id |-> ad.id, repeat |-> ad.repeat, path |-> ScheduleAdPath(ad),
     result |-> ScheduleAdReturn(ad)]

\* db.updateAd(id, data) replaces the stored object by a copy: a task whose
\* callback holds the stored object keeps the object as it was
Detach(tk, a) ==
    [t \in TaskIds |->
        IF tk[t] # NoTask /\ tk[t].ad.id = a
        THEN [tk[t] EXCEPT !.shared = FALSE] ELSE tk[t]]

\* getNextExecutionTime(adId): the anchor advanced until it is not before now
RECURSIVE AdvanceToNow(_, _)
AdvanceToNow(mt, repeat) ==
    IF IsBeforeNow(mt) THEN AdvanceToNow(AddUnitToMoment(mt, repeat), repeat) ELSE mt

GetNextExecutionTime(a) ==
    IF scheduledTasks[a] = NoEntry \/ ~AdExists(a) THEN NoMoment
    ELSE IF ads[a].scheduleDate = NoDate \/ ads[a].scheduleTime = "" THEN NoMoment
    ELSE IF ~IsValidDate(ads[a].scheduleDate) THEN NoMoment
    ELSE IF ads[a].repeat = "once"
         THEN (IF IsBeforeNow(ParseDateTime(ads[a])) THEN NoMoment
               ELSE ParseDateTime(ads[a]))
         ELSE AdvanceToNow(ParseDateTime(ads[a]), ads[a].repeat)

\* db.updateAdStats(adId, stats), on the ads and the tasks D; sent is
\* Undefined when the caller passes no sent. The stored object is changed in
\* place before updateAd replaces it by a copy, so a callback that holds the
\* stored object sees these statistics and none after them
UpdateAdStats(D, a, sent, failed) ==
    IF D.ads[a] = NoAd \/ D.ads[a] = DeletedAd THEN D
    ELSE LET st == [sent |-> IF sent = Undefined THEN D.ads[a].stats.sent ELSE sent,
                    failed |-> failed]
         IN  [ads |-> [D.ads EXCEPT ![a].stats = st],
              tasks |-> [t \in TaskIds |->
                            IF D.tasks[t] # NoTask /\ D.tasks[t].ad.id = a
                               /\ D.tasks[t].shared
                            THEN [D.tasks[t] EXCEPT !.ad.stats = st, !.shared = FALSE]
                            ELSE D.tasks[t]]]

\* a callback that cancels the campaign after every firing
FinishCallbackCancels(t, d, sent, failed) ==
    LET ad == tasks[t].ad
        D == UpdateAdStats([ads |-> ads, tasks |-> tasks], ad.id, sent, failed)
        S == CancelScheduledAd([scheduledTasks |-> scheduledTasks,
                                tasks |-> D.tasks], ad.id)
    IN  [ads |-> D.ads,
         tasks |-> IF /\ S.tasks[t] # NoTask
                      /\ ~S.tasks[t].live
                      /\ \A e \in DOMAIN disp \ {d} :
                            disp[e].pc = "idle" \/ disp[e].task # t
                   THEN [S.tasks EXCEPT ![t] = NoTask] ELSE S.tasks,
         scheduledTasks |-> S.scheduledTasks]

\* the rest of the cron callback of task t, run on worker d ("" when no
\* broadcast was started), once executeAd has its outcome: the statistics are
\* stored and a `once` campaign is cancelled
FinishCallback(t, d, sent, failed) ==
    LET ad == tasks[t].ad
        D == UpdateAdStats([ads |-> ads, tasks |-> tasks], ad.id, sent, failed)
        S0 == [scheduledTasks |-> scheduledTasks, tasks |-> D.tasks]
        S == IF ad.repeat = "once" THEN CancelScheduledAd(S0, ad.id) ELSE S0
    IN  [ads |-> D.ads,
         tasks |-> IF /\ S.tasks[t] # NoTask
                      /\ ~S.tasks[t].live
                      /\ \A e \in DOMAIN disp \ {d} :
                            disp[e].pc = "idle" \/ disp[e].task # t
                   THEN [S.tasks EXCEPT ![t] = NoTask] ELSE S.tasks,
         scheduledTasks |-> S.scheduledTasks]

\* executeAd's failure branches: failed grows by the number of groups
FailAll(t, d) ==
    FinishCallback(t, d, Undefined,
                   tasks[t].ad.stats.failed + Len(tasks[t].ad.groups))

\* executeAd after broadcastAd returned results r
StoreResults(t, d, r) ==
    FinishCallback(t, d, tasks[t].ad.stats.sent + r.sent,
                   tasks[t].ad.stats.failed + r.failed)

\* the ad has what the routes require before they call scheduleAd
IsScheduledAd(ad) == ad.scheduleDate # NoDate /\ ad.scheduleTime # "" /\ ad.active

\* POST /api/ads
CreateAdRoute(a, u, groups, date, time, repeat, active) ==
    /\ due = {}
    /\ ads[a] = NoAd
    /\ FreeTasks(tasks) # {}
    /\ LET ad == [id |-> a, userId |-> u, groups |-> groups,
                  scheduleDate |-> date, scheduleTime |-> time,
                  repeat |-> repeat, active |-> active,
                  stats |-> [sent |-> 0, failed |-> 0]]
           S == IF IsScheduledAd(ad) THEN ScheduleAd(Registry, ad, TRUE)
                ELSE Registry
       IN  /\ ads' = [ads EXCEPT ![a] = ad]
           /\ scheduledTasks' = S.scheduledTasks
           /\ tasks' = S.tasks
           /\ UNCHANGED panel
           /\ lastCall' = IF IsScheduledAd(ad) THEN CallOf(ad) ELSE NoCall
    /\ UNCHANGED <<now, due, fires, sessVars, rateVars>>

\* the routes' "cancelScheduledAd(id); if (...) scheduleAd(updatedAd)" after
\* db.updateAd(id, updatedAd)
Reschedule(updatedAd) ==
    LET a == updatedAd.id
        S1 == CancelScheduledAd([scheduledTasks |-> scheduledTasks,
                                 tasks |-> Detach(tasks, a)], a)
        S == IF IsScheduledAd(updatedAd) THEN ScheduleAd(S1, updatedAd, FALSE)
             ELSE S1
    IN  /\ ads' = [ads EXCEPT ![a] = updatedAd]
        /\ scheduledTasks' = S.scheduledTasks
        /\ tasks' = S.tasks
        /\ UNCHANGED panel
        /\ lastCall' = IF IsScheduledAd(updatedAd) THEN CallOf(updatedAd) ELSE NoCall

\* PUT /api/ads/:id; a field that is not sent ("" or NoDate) keeps its value
UpdateAdRoute(a, date, time, repeat, active) ==
    /\ due = {}
    /\ AdExists(a)
    /\ FreeTasks(tasks) # {}
    /\ Reschedule([ads[a] EXCEPT
                      !.scheduleDate = IF date # NoDate THEN date ELSE @,
                      !.scheduleTime = IF time # "" THEN time ELSE @,
                      !.repeat = IF repeat # "" THEN repeat ELSE @,
                      !.active = IF active # "" THEN active = "true" ELSE @])
    /\ UNCHANGED <<now, due, fires, sessVars, rateVars>>

\* POST /api/ads/:id/toggle
ToggleAdRoute(a) ==
    /\ due = {}
    /\ AdExists(a)
    /\ FreeTasks(tasks) # {}
    /\ Reschedule([ads[a] EXCEPT !.active = ~@])
    /\ UNCHANGED <<now, due, fires, sessVars, rateVars>>

\* DELETE /api/ads/:id
DeleteAdRoute(a) ==
    /\ due = {}
    /\ AdExists(a)
    /\ LET S == CancelScheduledAd(Registry, a)
       IN  /\ scheduledTasks' = S.scheduledTasks
           /\ tasks' = Detach(S.tasks, a)
    /\ ads' = [ads EXCEPT ![a] = DeletedAd]
    /\ UNCHANGED panel
    /\ lastCall' = NoCall
    /\ UNCHANGED <<now, due, fires, sessVars, rateVars>>

\* scheduler.scheduleAd(ad) with the stored ad
ScheduleAdCall(a) ==
    /\ due = {}
    /\ AdExists(a)
    /\ FreeTasks(tasks) # {}
    /\ LET S == ScheduleAd(Registry, ads[a], TRUE)
       IN  /\ scheduledTasks' = S.scheduledTasks
           /\ tasks' = S.tasks
    /\ UNCHANGED panel
    /\ lastCall' = CallOf(ads[a])
    /\ UNCHANGED <<now, ads, due, fires, sessVars, rateVars>>

\* scheduler.cancelScheduledAd(adId)
CancelScheduledAdCall(a) ==
    /\ due = {}
    /\ LET S == CancelScheduledAd(Registry, a)
       IN  /\ scheduledTasks' = S.scheduledTasks
           /\ tasks' = S.tasks
    /\ UNCHANGED panel
    /\ lastCall' = [id |-> a, repeat |-> "", path |-> "cancelled",
                    result |-> "undefined", had |-> scheduledTasks[a] # NoEntry]
    /\ UNCHANGED <<now, ads, due, fires, sessVars, rateVars>>

\* scheduler.updateAdSchedule(ad) with the stored ad
UpdateAdScheduleCall(a) ==
    /\ due = {}
    /\ AdExists(a)
    /\ FreeTasks(tasks) # {}
    /\ LET S1 == CancelScheduledAd(Registry, a)
           S == IF IsScheduledAd(ads[a]) THEN ScheduleAd(S1, ads[a], TRUE) ELSE S1
       IN  /\ scheduledTasks' = S.scheduledTasks
           /\ tasks' = S.tasks
    /\ UNCHANGED panel
    /\ lastCall' = IF IsScheduledAd(ads[a]) THEN CallOf(ads[a]) ELSE NoCall
    /\ UNCHANGED <<now, ads, due, fires, sessVars, rateVars>>

\* scheduleAd(ad) for each ad of db.getScheduledAds()
RECURSIVE RescheduleAll(_, _)
RescheduleAll(S, ids) ==
    IF ids = {} THEN S
    ELSE LET a == CHOOSE x \in ids : TRUE
         IN  RescheduleAll(IF AdExists(a) /\ IsScheduledAd(ads[a])
                           THEN ScheduleAd(S, ads[a], TRUE) ELSE S,
                           ids \ {a})

\* the record of a rescheduleExistingAds() run that has just returned
StartupCall == [id |-> "", repeat |-> "", path |-> "startup", result |-> "undefined"]

\* initialize() / rescheduleExistingAds()
RescheduleExistingAds ==
    /\ due = {}
    /\ Cardinality(FreeTasks(tasks)) >= Cardinality({a \in AllAdIds : AdExists(a)})
    /\ LET S == RescheduleAll(Registry, AllAdIds)
       IN  /\ scheduledTasks' = S.scheduledTasks
           /\ tasks' = S.tasks
    /\ UNCHANGED panel
    /\ lastCall' = StartupCall
    /\ UNCHANGED <<now, ads, due, fires, sessVars, rateVars>>

\* the next slot begins, at most maxDays days after the start: node-cron
\* invokes the callback of every started task whose expression matches, before
\* anything else of the scheduler runs
TickWithin(maxDays) ==
    /\ due = {}
    /\ DayNumber(NextSlot(now).date) - DayNumber(StartDate) <= maxDays
    /\ now' = NextSlot(now)
    /\ due' = {t \in TaskIds :
                  /\ tasks[t] # NoTask
                  /\ tasks[t].live
                  /\ CronMatches(tasks[t].cron, NextSlot(now))}
    /\ UNCHANGED panel
    /\ lastCall' = NoCall
    /\ UNCHANGED <<ads, tasks, scheduledTasks, fires, sessVars, rateVars>>

Tick == TickWithin(MaxDays)

\* dispatch workers are interchangeable: a new call runs on the first idle one
FirstIdle ==
    IF disp["d1"].pc = "idle" THEN "d1"
    ELSE IF disp["d2"].pc = "idle" THEN "d2" ELSE ""

\* the cron callback of task t starts: executeAd(ad) up to its first await,
\* on dispatch worker d when the user is connected
CronFire(t, d) ==
    /\ t \in due
    /\ due' = due \ {t}
    /\ LET ad == tasks[t].ad
           b == BroadcastAdBegin(d, ad.userId, ad.groups, ad.id, t)
           over == ~IsUserConnected(ad.userId) \/ b.pc = "done"
           F == IF ~IsUserConnected(ad.userId) THEN FailAll(t, "")
                ELSE StoreResults(t, "", b)
       IN  /\ IsUserConnected(ad.userId) => d = FirstIdle
           /\ IF over
              THEN /\ ads' = F.ads
                   /\ tasks' = F.tasks
                   /\ scheduledTasks' = F.scheduledTasks
                   /\ UNCHANGED disp
              ELSE /\ disp' = [disp EXCEPT ![d] = b]
                   /\ UNCHANGED <<ads, tasks, scheduledTasks>>
    /\ UNCHANGED panel
    /\ lastCall' = NoCall
    /\ UNCHANGED <<now, connVars, rateVars>>

\* a firing with no firing history kept
CronFires(t, d) == CronFire(t, d) /\ UNCHANGED fires

\* a firing of a recurring campaign, with its place in the recurrence noted
RecurringFires(t, d) ==
    /\ CronFire(t, d)
    /\ fires' = [fires EXCEPT ![tasks[t].ad.id] =
                    [last |-> now,
                     inStep |-> @.last = NoMoment
                                \/ now = AddUnitToMoment(@.last, tasks[t].ad.repeat)]]

\* the pacing delay of a broadcastAd called by executeAd is over: the loop goes
\* on, or executeAd stores the results (its catch the failure) and the
\* callback ends
SchedPacingEnds(d) ==
    /\ due = {}
    /\ disp[d].pc = "pacing"
    /\ disp[d].task # 0
    /\ LET r == AfterPacing(d)
           t == disp[d].task
           F == IF r.pc = "done" THEN StoreResults(t, d, r) ELSE FailAll(t, d)
       IN  IF r.pc = "sending"
           THEN /\ disp' = [disp EXCEPT ![d] = r]
                /\ UNCHANGED <<ads, tasks, scheduledTasks>>
           ELSE /\ disp' = [disp EXCEPT ![d] = IdleDispatch]
                /\ ads' = F.ads
                /\ tasks' = F.tasks
                /\ scheduledTasks' = F.scheduledTasks
    /\ UNCHANGED panel
    /\ lastCall' = NoCall
    /\ UNCHANGED <<now, due, fires, connVars, rateVars>>

SchedInit ==
    /\ now = [date |-> StartDate, hour |-> DayHours[1]]
    /\ ads = [a \in AllAdIds |-> NoAd]
    /\ tasks = [t \in TaskIds |-> NoTask]
    /\ scheduledTasks = [a \in AllAdIds |-> NoEntry]
    /\ due = {}
    /\ fires = [a \in AllAdIds |-> [last |-> NoMoment, inStep |-> TRUE]]
    /\ lastCall = NoCall
    /\ panel = PanelOff

(***************************************************************************)
(* Specifications                                                          *)
(***************************************************************************)
\* the rate guard as it is while the other components run: default switches
RateIdle ==
    /\ RateInit
    /\ settings.enabled
    /\ settings.maxMessagesPerHour = 1

InitSession == RateIdle /\ ConnInit /\ DispInit /\ SchedInit

\* the session manager alone: every tenant connects, pairs, loses and ends
\* sessions
NextSession ==
    \/ \E u \in Users : ConnectUserCall(u)
    \/ \E u \in Users : ReconnectTimerFires(u)
    \/ \E u \in Users : ConnectUserMakeSocket(u)
    \/ \E u \in Users : ConnectUserFails(u)
    \/ \E s \in SockIds : TransportOpens(s)
    \/ \E s \in SockIds : TransportDrops(s)
    \/ \E s \in SockIds : OnQr(s)
    \/ \E s \in SockIds : OnOpen(s)
    \/ \E s \in SockIds, r \in CloseReasons : OnClose(s, r)
    \/ \E u \in Users : DisconnectUserCall(u)
    \/ \E u \in Users : DisconnectUserReturns(u)

SpecSession == InitSession /\ [][NextSession]_vars

InitSweep == InitSession

\* sessions that are opened, paired and lost, with the periodic sweep
NextSweep ==
    \/ \E u \in Users : ConnectUserCall(u)
    \/ \E u \in Users : ReconnectTimerFires(u)
    \/ \E u \in Users : ConnectUserMakeSocket(u)
    \/ \E s \in SockIds : TransportOpens(s)
    \/ \E s \in SockIds : TransportDrops(s)
    \/ \E s \in SockIds : OnQr(s)
    \/ \E s \in SockIds : OnOpen(s)
    \/ \E s \in SockIds, r \in CloseReasons : OnClose(s, r)
    \/ CleanupConnectionsCall

SpecSweep == InitSweep /\ [][NextSweep]_vars

\* the dispatcher that serves direct broadcastAd calls
DirectDispatchers == {"d1"}

InitDispatch == RateIdle /\ ConnInit /\ DispInit /\ SchedInit

\* direct broadcasts of one tenant while its session comes and goes
NextDispatch ==
    \/ \E u \in DispatchTenants : ConnectUserCall(u)
    \/ \E u \in DispatchTenants : ReconnectTimerFires(u)
    \/ \E u \in DispatchTenants : ConnectUserMakeSocket(u)
    \/ \E s \in SockIds : TransportOpens(s)
    \/ \E s \in SockIds : TransportDrops(s)
    \/ \E s \in SockIds : OnOpen(s)
    \/ \E s \in SockIds, r \in CloseReasons : OnClose(s, r)
    \/ \E u \in DispatchTenants : DisconnectUserCall(u)
    \/ \E u \in DispatchTenants : DisconnectUserReturns(u)
    \/ \E d \in DirectDispatchers, u \in DispatchTenants, g \in GroupLists :
           BroadcastAdCall(d, u, g)
    \/ \E d \in DirectDispatchers, ok \in BOOLEAN : SendSettles(d, ok)
    \/ \E d \in DirectDispatchers : PacingEnds(d)
    \/ \E d \in DirectDispatchers : BroadcastAdReturns(d)

SpecDispatch == InitDispatch /\ [][NextDispatch]_vars

\* what the clients send to the ad routes
ScheduleDates ==
    {NoDate, [y |-> 2025, m |-> 1, d |-> 31], [y |-> 2025, m |-> 2, d |-> 1],
     [y |-> 2025, m |-> 2, d |-> 30]}
ScheduleTimes == {"", "10:00"}
SchedRepeats == {"once", "daily"}
AdGroupLists == {<<>>, <<"g1", "g2">>}

\* the tenant's session is up when the campaigns are created
ConnectedInit ==
    /\ connections = [u \in Users |->
                         IF u \in DispatchTenants
                         THEN [sock |-> 1, connected |-> TRUE] ELSE NoConn]
    /\ socks = <<[user |-> CHOOSE u \in DispatchTenants : TRUE, ws |-> "open",
                  qrGenerated |-> FALSE, ended |-> FALSE]>>
    /\ qrCodes = [u \in Users |-> FALSE]
    /\ timers = [u \in Users |-> 0]
    /\ connecting = [u \in Users |-> 0]
    /\ loggingOut = {}
    /\ disconnected = [u \in Users |-> FALSE]

InitSched == RateIdle /\ ConnectedInit /\ DispInit /\ SchedInit

\* the worker on which SpecSched runs the batches of the cron callbacks, one at
\* a time: a firing that finds it busy is not followed further there, it is
\* what SpecOverlap explores
SchedWorkers == {"d1"}

\* the scheduler with its routes, the clock and the tenant's session
NextSched ==
    \/ \E a \in AdIds, u \in DispatchTenants, g \in AdGroupLists,
          dt \in ScheduleDates, tm \in ScheduleTimes, r \in SchedRepeats,
          act \in BOOLEAN : CreateAdRoute(a, u, g, dt, tm, r, act)
    \/ \E a \in AdIds, dt \in ScheduleDates, r \in SchedRepeats \cup {""} :
          UpdateAdRoute(a, dt, "", r, "")
    \/ \E a \in AdIds : ToggleAdRoute(a)
    \/ \E a \in AdIds : DeleteAdRoute(a)
    \/ \E a \in AdIds : ScheduleAdCall(a)
    \/ \E a \in AdIds : CancelScheduledAdCall(a)
    \/ \E a \in AdIds : UpdateAdScheduleCall(a)
    \/ RescheduleExistingAds
    \/ Tick
    \/ \E t \in TaskIds, d \in SchedWorkers : CronFires(t, d)
    \/ \E d \in SchedWorkers, ok \in BOOLEAN : SendSettles(d, ok)
    \/ \E d \in SchedWorkers : SchedPacingEnds(d)
    \/ \E s \in SockIds : TransportDrops(s)
    \/ \E s \in SockIds : OnClose(s, "loggedOut")

SpecSched == InitSched /\ [][NextSched]_vars

InitOverlap == InitSched

\* firings of a campaign while batches run, on as many workers as there are
NextOverlap ==
    \/ \E a \in AdIds, u \in DispatchTenants, g \in AdGroupLists,
          dt \in ScheduleDates, tm \in ScheduleTimes, r \in SchedRepeats :
          CreateAdRoute(a, u, g, dt, tm, r, TRUE)
    \/ \E a \in AdIds, dt \in ScheduleDates, r \in SchedRepeats \cup {""} :
          UpdateAdRoute(a, dt, "", r, "")
    \/ Tick
    \/ \E t \in TaskIds, d \in Dispatchers : CronFires(t, d)
    \/ \E d \in Dispatchers, ok \in BOOLEAN : SendSettles(d, ok)
    \/ \E d \in Dispatchers : SchedPacingEnds(d)

SpecOverlap == InitOverlap /\ [][NextOverlap]_vars

\* the recurring campaigns stored when the process starts
RecurRepeats == {"daily", "weekly", "monthly", "yearly"}
RecurDates == {[y |-> 2025, m |-> 1, d |-> 31], [y |-> 2025, m |-> 2, d |-> 1]}
RecurTimes == {"10:00", "18:00"}

InitRecur ==
    /\ RateIdle
    /\ ConnInit
    /\ DispInit
    /\ now = [date |-> StartDate, hour |-> DayHours[1]]
    /\ \E dt \in RecurDates, tm \in RecurTimes, r \in RecurRepeats :
          ads = [a \in AllAdIds |->
                    IF a \in AdIds
                    THEN [id |-> a, userId |-> CHOOSE u \in DispatchTenants : TRUE,
                          groups |-> <<"g1">>, scheduleDate |-> dt,
                          scheduleTime |-> tm, repeat |-> r, active |-> TRUE,
                          stats |-> [sent |-> 0, failed |-> 0]]
                    ELSE NoAd]
    /\ tasks = [t \in TaskIds |-> NoTask]
    /\ scheduledTasks = [a \in AllAdIds |-> NoEntry]
    /\ due = {}
    /\ fires = [a \in AllAdIds |-> [last |-> NoMoment, inStep |-> TRUE]]
    /\ lastCall = NoCall
    /\ panel = PanelOff

RecurTick == TickWithin(MaxRecurDays)

\* stored recurring campaigns are registered at startup and fire as the days
\* go by (the tenant has no session: every firing is counted as failed)
NextRecur ==
    \/ RescheduleExistingAds
    \/ RecurTick
    \/ \E t \in TaskIds, d \in SchedWorkers : RecurringFires(t, d)

SpecRecur == InitRecur /\ [][NextRecur]_vars

InitRate == RateInit /\ ConnInit /\ DispInit /\ SchedInit

NextRate ==
    \/ \E w \in RateWorkers, u \in DispatchTenants, g \in Groups : CanSendMessage(w, u, g)
    \/ \E w \in RateWorkers, s \in BOOLEAN : RecordMessageSent(w, s)
    \/ \E u \in Users, m \in BlockMinutes : BlockUserCall(u, m)
    \/ RateTick

SpecRate == InitRate /\ [][NextRate]_vars

\* a minute passes
GuardTick == clock < StartMinute + MaxGuardMinutes /\ RateTick

\* the group lists handed to validateBroadcast
GuardGroupLists == {<<>>, <<"g1">>, <<"g1", "g2">>}

\* the guard switched on with either ceiling, or switched off
InitGuard ==
    /\ RateInit
    /\ settings.enabled \/ settings.maxMessagesPerHour = 1
    /\ ConnInit
    /\ DispInit
    /\ SchedInit

\* the admission calls of one tenant in any order
NextGuard ==
    \/ \E u \in DispatchTenants, g \in Groups : CanSendMessageCall(u, g)
    \/ \E u \in DispatchTenants, g \in Groups, s \in BOOLEAN :
           RecordMessageSentCall(u, g, s)
    \/ \E u \in DispatchTenants, gs \in GuardGroupLists : ValidateBroadcastCall(u, gs)
    \/ \E u \in DispatchTenants, m \in BlockMinutes : BlockUserCall(u, m)
    \/ GuardTick

SpecGuard == InitGuard /\ [][NextGuard]_vars

InitUnblock == InitGuard

\* the operator's calls for every tenant, while one tenant sends
NextUnblock ==
    \/ \E u \in Users, m \in BlockMinutes : BlockUserCall(u, m)
    \/ \E u \in Users : UnblockUserCall(u)
    \/ EmergencyUnblockAllCall
    \/ \E u \in DispatchTenants, g \in Groups : CanSendMessageCall(u, g)
    \/ \E u \in DispatchTenants, g \in Groups : RecordMessageSentCall(u, g, TRUE)
    \/ GuardTick

SpecUnblock == InitUnblock /\ [][NextUnblock]_vars

\* the campaigns stored when the process starts: two, the second a day later
CancelRepeats == {"once", "daily"}

InitCancel ==
    /\ RateIdle
    /\ ConnInit
    /\ DispInit
    /\ now = [date |-> StartDate, hour |-> DayHours[1]]
    /\ \E r1 \in CancelRepeats, r2 \in CancelRepeats, tm \in RecurTimes :
          ads = [a \in AllAdIds |->
                    [id |-> a, userId |-> CHOOSE u \in DispatchTenants : TRUE,
                     groups |-> <<"g1">>,
                     scheduleDate |-> IF a \in AdIds THEN NextDay(StartDate)
                                      ELSE NextDay(NextDay(StartDate)),
                     scheduleTime |-> tm,
                     repeat |-> IF a \in AdIds THEN r1 ELSE r2,
                     active |-> TRUE,
                     stats |-> [sent |-> 0, failed |-> 0]]]
    /\ tasks = [t \in TaskIds |-> NoTask]
    /\ scheduledTasks = [a \in AllAdIds |-> NoEntry]
    /\ due = {}
    /\ fires = [a \in AllAdIds |-> [last |-> NoMoment, inStep |-> TRUE]]
    /\ lastCall = NoCall
    /\ panel = PanelOff

\* two stored campaigns are registered at startup, cancelled and fired (the
\* tenant has no session: every firing is counted as failed)
NextCancel ==
    \/ RescheduleExistingAds
    \/ \E a \in AllAdIds : CancelScheduledAdCall(a)
    \/ Tick
    \/ \E t \in TaskIds, d \in SchedWorkers : CronFires(t, d)

SpecCancel == InitCancel /\ [][NextCancel]_vars

\* the guard switched on, the tenant's session up
InitGuarded ==
    /\ RateInit
    /\ settings.enabled
    /\ ConnectedInit
    /\ DispInit
    /\ SchedInit

\* direct broadcasts of a tenant whose sends are recorded by the rate guard or
\* who is blocked by it
NextGuarded ==
    \/ \E u \in DispatchTenants, m \in BlockMinutes : BlockUserCall(u, m)
    \/ \E u \in DispatchTenants, g \in Groups, ok \in BOOLEAN :
           RecordMessageSentCall(u, g, ok)
    \/ GuardTick
    \/ \E d \in DirectDispatchers, u \in DispatchTenants, g \in GroupLists :
           BroadcastAdCall(d, u, g)
    \/ \E d \in DirectDispatchers, ok \in BOOLEAN : SendSettles(d, ok)
    \/ \E d \in DirectDispatchers : PacingEnds(d)
    \/ \E d \in DirectDispatchers : BroadcastAdReturns(d)

SpecGuarded == InitGuarded /\ [][NextGuarded]_vars


\* the sockets made, the connect calls under way and the reconnects pending
SessionLoad == Len(socks) + Connecting + SumOver(timers, Users)

\* a connect request, made while a socket is left for every pending reconnect
BoundedConnectUserCall(u) == SessionLoad < MaxSocks /\ ConnectUserCall(u)

\* a close event; a recoverable one while a socket is left for its reconnect
BoundedOnClose(s, r) ==
    /\ r \notin {"loggedOut", "forbidden"} => SessionLoad < MaxSocks
    /\ OnClose(s, r)

InitReconnect == InitSession

\* sessions that are requested, opened, lost and ended, as many as the socket
\* bound lets every scheduled reconnect go through
NextReconnect ==
    \/ \E u \in Users : BoundedConnectUserCall(u)
    \/ \E u \in Users : ReconnectTimerFires(u)
    \/ \E u \in Users : ConnectUserMakeSocket(u)
    \/ \E s \in SockIds : TransportOpens(s)
    \/ \E s \in SockIds : OnOpen(s)
    \/ \E s \in SockIds, r \in CloseReasons : BoundedOnClose(s, r)
    \/ \E u \in Users : DisconnectUserCall(u)
    \/ \E u \in Users : DisconnectUserReturns(u)

\* a timer set with setTimeout fires once its delay is over
SpecReconnect ==
    /\ InitReconnect
    /\ [][NextReconnect]_vars
    /\ \A u \in Users : WF_vars(ReconnectTimerFires(u))


\* the first connect request for a tenant
RetryConnectUserCall(u) ==
    /\ connecting[u] = 0
    /\ timers[u] = 0
    /\ \A s \in 1 .. Len(socks) : socks[s].user # u
    /\ ConnectUserCallWithin(u, MaxRetrySocks)

RetryTimerFires(u) == ReconnectTimerFiresWithin(u, MaxRetrySocks)

RetryMakeSocket(u) == MakeSocketWithin(u, MaxRetrySocks)

InitRetry == InitSession

\* tenants whose sockets never open: every socket is lost with a recoverable
\* status before it is ready, and the close handler's timer connects again
NextRetry ==
    \/ \E u \in Users : RetryConnectUserCall(u)
    \/ \E u \in Users : RetryTimerFires(u)
    \/ \E u \in Users : RetryMakeSocket(u)
    \/ \E s \in 1 .. MaxRetrySocks : OnClose(s, "recoverable")

SpecRetry == InitRetry /\ [][NextRetry]_vars


InitPairing == InitSession

\* tenants that connect and pair, or do not pair before the pairing wait ends
NextPairing ==
    \/ \E u \in Users : ConnectUserCall(u)
    \/ \E u \in Users : ConnectUserMakeSocket(u)
    \/ \E s \in SockIds : TransportOpens(s)
    \/ \E s \in SockIds : OnQr(s)
    \/ \E s \in SockIds : OnOpen(s)
    \/ \E s \in SockIds, r \in CloseReasons : OnClose(s, r)
    \/ \E s \in SockIds : PairingWaitEnds(s)

SpecPairing == InitPairing /\ [][NextPairing]_vars


\* two stored campaigns of a tenant whose session is up, the first for the
\* morning of the next day, the second daily from the evening of the day after
InitFirings ==
    /\ RateIdle
    /\ ConnectedInit
    /\ DispInit
    /\ now = [date |-> StartDate, hour |-> DayHours[1]]
    /\ \E r1 \in CancelRepeats :
          ads = [a \in AllAdIds |->
                    [id |-> a, userId |-> CHOOSE u \in DispatchTenants : TRUE,
                     groups |-> <<"g1", "g2">>,
                     scheduleDate |-> IF a \in AdIds THEN NextDay(StartDate)
                                      ELSE NextDay(NextDay(StartDate)),
                     scheduleTime |-> IF a \in AdIds THEN "10:00" ELSE "18:00",
                     repeat |-> IF a \in AdIds THEN r1 ELSE "daily",
                     active |-> TRUE,
                     stats |-> [sent |-> 0, failed |-> 0]]]
    /\ tasks = [t \in TaskIds |-> NoTask]
    /\ scheduledTasks = [a \in AllAdIds |-> NoEntry]
    /\ due = {}
    /\ fires = [a \in AllAdIds |-> [last |-> NoMoment, inStep |-> TRUE]]
    /\ lastCall = NoCall
    /\ panel = PanelOff

\* the send in flight settles: sent on an open transport, failed on a dead one
FiringSendSettles(d) == SendSettles(d, socks[disp[d].sock].ws = "open")

\* the campaigns are registered at startup, fire, and are cancelled, while
\* their batches run and the tenant's transport may drop
NextFirings ==
    \/ RescheduleExistingAds
    \/ \E a \in AllAdIds : CancelScheduledAdCall(a)
    \/ Tick
    \/ \E t \in TaskIds, d \in SchedWorkers : CronFires(t, d)
    \/ \E d \in SchedWorkers : FiringSendSettles(d)
    \/ \E d \in SchedWorkers : SchedPacingEnds(d)
    \/ \E s \in SockIds : TransportDrops(s)

SpecFirings == InitFirings /\ [][NextFirings]_vars


InitCleanup == InitSession

\* tenants send and are blocked over some hours, with the periodic cleanup
NextCleanup ==
    \/ \E u \in Users, g \in Groups : RecordMessageSentCall(u, g, TRUE)
    \/ \E u \in Users, m \in BlockMinutes : BlockUserCall(u, m)
    \/ GuardTick
    \/ CleanupHourPasses
    \/ CleanupOldDataCall

SpecCleanup == InitCleanup /\ [][NextCleanup]_vars


\* the guard switched on with the higher ceiling, at the start of an hour
InitDuplicate ==
    /\ clock = MinutesPerHour
    /\ settings \in SettingsChoices
    /\ settings.enabled
    /\ settings.maxMessagesPerHour = 2
    /\ userActivity = [k \in Users \X Hours |-> NoActivity]
    /\ blockedUsers = [u \in Users |-> NoBlock]
    /\ rw = [w \in RateWorkers |-> [pc |-> "idle", user |-> "", group |-> ""]]
    /\ recorded = [u \in Users |-> 0]
    /\ lastCheck = NoCheck
    /\ everBlocked = [u \in Users |-> FALSE]
    /\ lastOp = NoOp
    /\ lastTargeted = [k \in Users \X Groups |-> -1]
    /\ ConnInit
    /\ DispInit
    /\ SchedInit

\* a tenant checks and records sends to its groups within one hour
NextDuplicate ==
    \/ \E u \in DispatchTenants, g \in Groups : CanSendMessageCall(u, g)
    \/ \E u \in DispatchTenants, g \in Groups, ok \in BOOLEAN : RecordedSend(u, g, ok)
    \/ DuplicateTick

SpecDuplicate == InitDuplicate /\ [][NextDuplicate]_vars


\* no campaign stored, no tenant connected
InitValidate == RateIdle /\ ConnInit /\ DispInit /\ SchedInit

\* campaigns are created, changed and handed to scheduleAd as time passes (the
\* tenant has no session: every firing is counted as failed)
NextValidate ==
    \/ \E a \in AdIds, u \in DispatchTenants, g \in AdGroupLists,
          dt \in ScheduleDates, tm \in ScheduleTimes, r \in SchedRepeats,
          act \in BOOLEAN : CreateAdRoute(a, u, g, dt, tm, r, act)
    \/ \E a \in AdIds, dt \in ScheduleDates, r \in SchedRepeats \cup {""} :
          UpdateAdRoute(a, dt, "", r, "")
    \/ \E a \in AdIds : ScheduleAdCall(a)
    \/ Tick
    \/ \E t \in TaskIds, d \in SchedWorkers : CronFires(t, d)

SpecValidate == InitValidate /\ [][NextValidate]_vars


InitRoutes == InitSched

\* the ad routes and the firings of the timers they register
NextRoutes ==
    \/ \E a \in AdIds, u \in DispatchTenants, g \in AdGroupLists,
          dt \in ScheduleDates, tm \in ScheduleTimes, r \in SchedRepeats,
          act \in BOOLEAN : CreateAdRoute(a, u, g, dt, tm, r, act)
    \/ \E a \in AdIds, dt \in ScheduleDates, r \in SchedRepeats \cup {""},
          act \in {"", "true", "false"} : UpdateAdRoute(a, dt, "", r, act)
    \/ \E a \in AdIds : ToggleAdRoute(a)
    \/ \E a \in AdIds : DeleteAdRoute(a)
    \/ Tick
    \/ \E t \in TaskIds, d \in SchedWorkers : CronFires(t, d)
    \/ \E d \in SchedWorkers, ok \in BOOLEAN : SendSettles(d, ok)
    \/ \E d \in SchedWorkers : SchedPacingEnds(d)

SpecRoutes == InitRoutes /\ [][NextRoutes]_vars


\* the panel connected, one schedule created at PanelStart by POST
\* /api/schedules, its ad sendable or not
InitPanel ==
    /\ RateIdle
    /\ ConnInit
    /\ DispInit
    /\ now = [date |-> StartDate, hour |-> DayHours[1]]
    /\ ads = [a \in AllAdIds |-> NoAd]
    /\ tasks = [t \in TaskIds |-> NoTask]
    /\ scheduledTasks = [a \in AllAdIds |-> NoEntry]
    /\ due = {}
    /\ fires = [a \in AllAdIds |-> [last |-> NoMoment, inStep |-> TRUE]]
    /\ lastCall = NoCall
    /\ \E days \in PanelDayLists, time \in PanelTimes, ok \in BOOLEAN :
          panel = [now |-> PanelStart, isConnected |-> TRUE, sendable |-> ok,
                   schedule |-> [isActive |-> TRUE, days |-> days, time |-> time,
                                 nextRun |-> CalculateNextRun(days, time, PanelStart)],
                   running |-> 0, lastFired |-> NoFiring, refired |-> FALSE]

\* the panel's minute ticks, its sends and the toggle of its schedule
NextPanel ==
    \/ CheckSchedules
    \/ PanelSendReturns
    \/ ToggleScheduleRoute

SpecPanel == InitPanel /\ [][NextPanel]_vars


(***************************************************************************)
(* Claims about the rate guard                                             *)
(***************************************************************************)
\* The whole of the modelled time lies within one rolling 60-minute window.
OneRollingWindow == clock - StartMinute < MinutesPerHour

\* C1: with anti-spam enabled, when every send is recorded only after
\* canSendMessage allowed it, the number of send attempts recorded for a
\* tenant within a rolling 60-minute window never exceeds maxMessagesPerHour.
C1_RollingCeiling ==
    (settings.enabled /\ OneRollingWindow) =>
        \A u \in Users : recorded[u] <= settings.maxMessagesPerHour

\* the canSendMessage call that has just returned met a block record
CheckedWithBlock ==
    /\ lastCheck # NoCheck
    /\ settings.enabled
    /\ lastCheck.hadBlock

C11_CeilingTriggersBlock ==
    settings.enabled =>
        /\ \A u \in Users :
              GetUserActivity(u).count > settings.maxMessagesPerHour => everBlocked[u]
        /\ (/\ lastCheck # NoCheck
            /\ lastCheck.reason # "blocked"
            /\ GetUserActivity(lastCheck.user).count >= settings.maxMessagesPerHour) =>
               /\ lastCheck.reason = "rate_limit"
               /\ blockedUsers[lastCheck.user] # NoBlock
               /\ blockedUsers[lastCheck.user].unblockTime =
                      clock + settings.cooldownMinutes

\* the validateBroadcast call that has just returned, for a tenant not blocked
ValidatedUnblocked ==
    /\ lastOp # NoOp
    /\ lastOp.op = "validateBroadcast"
    /\ settings.enabled
    /\ ~IsUserBlocked(lastOp.user)

\* the requested groups that are in the tenant's current-hour targeted set
AlreadyTargeted(u, groups) ==
    {groups[i] : i \in {j \in 1 .. Len(groups) : groups[j] \in GetUserActivity(u).groups}}

\* C13: with anti-spam enabled and the tenant not blocked, validateBroadcast
\* returns valid exactly when the number of requested groups is at most
\* maxMessagesPerHour minus the current-hour count and no requested group is in
\* the current-hour targeted set; otherwise the whole batch is rejected, with
\* rate_limit and the allowed count or with duplicate_groups and the duplicates.
C13_BatchAdmittedWhole ==
    ValidatedUnblocked =>
        LET u == lastOp.user
            r == lastOp.result
            quota == settings.maxMessagesPerHour - GetUserActivity(u).count
            dups == AlreadyTargeted(u, lastOp.groups)
        IN  /\ r.valid <=> (Len(lastOp.groups) <= quota /\ dups = {})
            /\ ~r.valid => r.reason \in {"rate_limit", "duplicate_groups"}
            /\ r.reason = "rate_limit" =>
                   Len(lastOp.groups) > quota /\ r.maxGroups = quota
            /\ r.reason = "duplicate_groups" =>
                   /\ dups # {}
                   /\ {r.duplicateGroups[i] : i \in 1 .. Len(r.duplicateGroups)} = dups

\* a batch within the quota was rejected for a group already messaged this hour
C13_Witness ==
    /\ ValidatedUnblocked
    /\ lastOp.result.reason = "duplicate_groups"
    /\ GetUserActivity(lastOp.user).count = 1
    /\ Len(lastOp.groups) <= settings.maxMessagesPerHour - 1

\* C16: every recordMessageSent call increases the tenant's current-hour count
\* by exactly 1 and adds the group to the window's targeted set, whether the
\* send succeeded or failed.
C16_EveryRecordConsumesQuota ==
    [][\A u \in Users, g \in Groups, s \in BOOLEAN :
          RecordMessageSentCall(u, g, s) =>
              /\ GetUserActivity(u)'.count = GetUserActivity(u).count + 1
              /\ g \in GetUserActivity(u)'.groups
              /\ GetUserActivity(u).groups \subseteq GetUserActivity(u)'.groups]_vars

\* a window holds a failed send next to a successful one, both counted
C16_Witness ==
    \E u \in Users :
        /\ GetUserActivity(u).count = 2
        /\ GetUserActivity(u).failed = 1
        /\ GetUserActivity(u).successful = 1

\* C20: unblockUser removes the tenant's block record, so that the next
\* admission check is not denied as blocked, and leaves every other tenant's
\* record and all rate windows unchanged; emergencyUnblockAll removes every
\* block record and returns the number removed.
C20_UnblockFrame ==
    [][/\ \A u \in Users :
             UnblockUserCall(u) =>
                 /\ blockedUsers'[u] = NoBlock
                 /\ \A g \in Groups : CanSendReason(u, g)' # "blocked"
                 /\ \A v \in Users \ {u} : blockedUsers'[v] = blockedUsers[v]
                 /\ userActivity' = userActivity
       /\ EmergencyUnblockAllCall =>
             /\ \A u \in Users : blockedUsers'[u] = NoBlock
             /\ lastOp'.result = BlockedCount
             /\ userActivity' = userActivity]_vars

\* one tenant's record was removed by unblockUser while another's stays
C20_Witness ==
    /\ lastOp # NoOp
    /\ lastOp.op = "unblockUser"
    /\ lastOp.result
    /\ \E v \in Users \ {lastOp.user} : blockedUsers[v] # NoBlock

(***************************************************************************)
(* Claims about dispatch                                                   *)
(***************************************************************************)
\* a broadcastAd call that was not rejected up front and is over
DispatchOver(d) == disp[d].pc \in {"done", "thrown"}

\* C2: every dispatch that is not rejected up front returns a result with
\* sent + failed = total, total being the number of target groups, whatever
\* the per-group outcomes and whatever happens to the session meanwhile.
C2_ResultAccountsForAll ==
    \A d \in Dispatchers :
        DispatchOver(d) =>
            /\ disp[d].pc = "done"
            /\ disp[d].total = Len(disp[d].groups)
            /\ disp[d].sent + disp[d].failed = disp[d].total

\* C5: a dispatch of a campaign with n target groups performs exactly n send
\* attempts, one per group in listed order, with a pacing delay between every
\* two consecutive attempts, and no failure prevents the later attempts.
C5_ExactlyNAttempts ==
    \A d \in Dispatchers :
        /\ Len(disp[d].attempts) <= Len(disp[d].groups)
        /\ disp[d].attempts = SubSeq(disp[d].groups, 1, Len(disp[d].attempts))
        /\ disp[d].delays >= Len(disp[d].attempts) - 1
        /\ DispatchOver(d) => disp[d].attempts = disp[d].groups

\* C14: a dispatch of a campaign whose batch validateBroadcast would reject
\* (tenant blocked, more targets than the remaining hourly quota, or a target
\* already messaged this hour) performs no send attempt and does not touch
\* the tenant's session.
C14_RejectedBatchSendsNothing ==
    [][\A d \in Dispatchers, u \in Users, gs \in GroupLists :
          (BroadcastAdCall(d, u, gs) /\ ~ValidateBroadcast(u, gs).valid) =>
              /\ disp'[d].attempts = <<>>
              /\ disp'[d].sock = 0
              /\ disp'[d].pc # "sending"]_vars

(***************************************************************************)
(* Claims about sessions                                                   *)
(***************************************************************************)
\* C6: after disconnectUser returned, the tenant has no session entry, is not
\* connected, and no reconnection attempt occurs for it until an explicit
\* connect request.
C6_DisconnectIsTerminal ==
    \A u \in Users :
        disconnected[u] =>
            /\ connections[u] = NoConn
            /\ ~IsUserConnected(u)
            /\ connecting[u] = 0

\* C10: in every reachable state no tenant has two provider sockets with
\* active event handlers.
C10_OneLiveSocketPerTenant ==
    \A u \in Users : Cardinality(LiveSocks(u)) <= 1

\* the tenant is Connected or Pairing: it has a session entry
HasSession(u) == connections[u] # NoConn

\* C12: connectUser called while the tenant is Connected or Pairing opens no
\* new provider session and leaves the tenant's session state unchanged.
C12_ConnectIsIdempotent ==
    [][\A u \in Users :
          (ConnectUserCall(u) /\ HasSession(u)) =>
              /\ connections'[u] = connections[u]
              /\ connecting'[u] = connecting[u]
              /\ qrCodes'[u] = qrCodes[u]
              /\ socks' = socks]_vars

\* the tenants whose session handle reports a transport that is not open
DeadTransport ==
    {u \in Users : HasSession(u) /\ socks[connections[u].sock].ws # "open"}

\* C19: cleanupConnections leaves every tenant whose session handle reports a
\* transport that is not open without a session entry and not connected, emits
\* one disconnect event for each of them, returns their number, and leaves
\* every other tenant unchanged.
C19_SweepDemotesStale ==
    [][CleanupConnectionsCall =>
          /\ \A u \in DeadTransport :
                /\ connections'[u] = NoConn
                /\ ~IsUserConnected(u)'
                /\ lastOp'.emitted[u] = 1
          /\ \A u \in Users \ DeadTransport :
                /\ connections'[u] = connections[u]
                /\ qrCodes'[u] = qrCodes[u]
                /\ IsUserConnected(u)' = IsUserConnected(u)
                /\ lastOp'.emitted[u] = 0
          /\ lastOp'.result = Cardinality(DeadTransport)]_vars

\* a sweep has removed one tenant and left a tenant with an open transport
C19_Witness ==
    /\ lastOp # NoOp
    /\ lastOp.op = "cleanupConnections"
    /\ lastOp.result = 1
    /\ \E u \in Users : lastOp.emitted[u] = 1 /\ connections[u] = NoConn
    /\ \E u \in Users : lastOp.emitted[u] = 0 /\ IsUserConnected(u)

(***************************************************************************)
(* Claims about the scheduler                                              *)
(***************************************************************************)
\* the dispatch workers on which a batch of campaign a is executing
Batches(a) ==
    {d \in Dispatchers : disp[d].pc \in {"sending", "pacing"} /\ disp[d].ad = a}

\* C3: when a campaign fires again while a dispatch of the same tenant and
\* campaign is still running, the second invocation is skipped: at no time do
\* two batches of one campaign execute.
C3_OneBatchPerCampaign ==
    \A a \in AdIds : Cardinality(Batches(a)) <= 1

\* C7: a scheduleAd call for a `once` campaign whose date and time lie before
\* the current time is rejected with an InvalidSchedule outcome that the
\* caller can observe, and leaves no schedule entry for the campaign id.
C7_PastOnceRejected ==
    (lastCall # NoCall /\ lastCall.repeat = "once" /\ lastCall.path = "past") =>
        /\ lastCall.result = "InvalidSchedule"
        /\ scheduledTasks[lastCall.id] = NoEntry

\* C9: after any sequence of scheduleAd, cancelScheduledAd, updateAdSchedule,
\* startup re-registration and timer firings, every campaign id has at most
\* one started, not destroyed timer task, and that task is the one recorded
\* for the id in scheduledTasks.
C9_OneLiveTaskPerCampaign ==
    \A a \in AdIds :
        /\ Cardinality(LiveTasks(a)) <= 1
        /\ LiveTasks(a) \subseteq
               (IF scheduledTasks[a] = NoEntry THEN {} ELSE {scheduledTasks[a].task})

\* a campaign that has fired and was scheduled again while the callback of its
\* former, destroyed task is still running
C9_Witness ==
    \E a \in AdIds :
        /\ scheduledTasks[a] # NoEntry
        /\ LiveTasks(a) = {scheduledTasks[a].task}
        /\ \E t \in TaskIds :
              tasks[t] # NoTask /\ tasks[t].ad.id = a /\ ~tasks[t].live /\ Running(t)

\* the recurring campaign a has fired and is still registered as it fired
FiredRecurring(a) ==
    /\ fires[a].last # NoMoment
    /\ AdExists(a)
    /\ ads[a].repeat # "once"
    /\ scheduledTasks[a] # NoEntry

\* C8: after a recurring campaign fired, its next fire time is the fired
\* occurrence advanced by exactly one recurrence unit at the same time of day
\* (monthly: the same day of month, clamped to the last day of the month): no
\* firing comes out of step, the occurrence one unit later is not passed
\* without a firing, and the next execution time computed right after the
\* firing is that occurrence.
C8_NextFireOneUnitLater ==
    \A a \in AdIds :
        FiredRecurring(a) =>
            LET next == AddUnitToMoment(fires[a].last, ads[a].repeat)
            IN  /\ fires[a].inStep
                /\ ~IsBefore(next, now)
                /\ now = fires[a].last => GetNextExecutionTime(a) = next

\* C15: when a campaign with n target groups fires while its tenant has no
\* live session, no send is attempted and the campaign's failed statistic
\* grows by exactly n, its sent statistic staying as it is.
C15_NoSessionAllFailed ==
    [][\A t \in TaskIds, d \in SchedWorkers :
          (RecurringFires(t, d) /\ ~IsUserConnected(tasks[t].ad.userId)) =>
              LET a == tasks[t].ad.id
              IN  /\ disp' = disp
                  /\ AdExists(a) =>
                        /\ ads'[a].stats.failed =
                               ads[a].stats.failed + Len(ads[a].groups)
                        /\ ads'[a].stats.sent = ads[a].stats.sent]_vars

\* the stored campaign a is active and has a date, a time and a recurrence
HasCompleteSchedule(a) ==
    /\ AdExists(a)
    /\ ads[a].active
    /\ ads[a].scheduleDate # NoDate
    /\ ads[a].scheduleTime # ""
    /\ ads[a].repeat \in Repeats

\* C17: on process start every persisted campaign that is active and has a
\* complete schedule triple gets a schedule entry; the only such campaigns left
\* without an entry are `once` campaigns whose date and time have passed.
C17_StartupRegistersAll ==
    lastCall = StartupCall =>
        \A a \in AdIds :
            HasCompleteSchedule(a) =>
                \/ scheduledTasks[a] # NoEntry
                \/ /\ ads[a].repeat = "once"
                   /\ IsBeforeNow(ParseDateTime(ads[a]))

\* C18: cancelScheduledAd removes the campaign's entry and stops its task, so
\* that only a campaign with an entry fires, and fires through the task its
\* entry records; called when no entry exists it changes nothing; the entries
\* and the tasks of the other campaigns are unchanged.
C18_CancelStopsAndIsIdempotent ==
    [][/\ \A a \in AllAdIds :
             CancelScheduledAdCall(a) =>
                 /\ scheduledTasks'[a] = NoEntry
                 /\ LiveTasks(a)' = {}
                 /\ \A b \in AllAdIds \ {a} :
                       /\ scheduledTasks'[b] = scheduledTasks[b]
                       /\ LiveTasks(b)' = LiveTasks(b)
                 /\ scheduledTasks[a] = NoEntry =>
                       UNCHANGED <<scheduledTasks, tasks>>
       /\ \A t \in due' \ due :
             /\ scheduledTasks[tasks[t].ad.id] # NoEntry
             /\ scheduledTasks[tasks[t].ad.id].task = t]_vars

\* a campaign's entry was cancelled while the other campaign stays registered
C18_Witness ==
    /\ lastCall # NoCall
    /\ lastCall.path = "cancelled"
    /\ lastCall.had
    /\ scheduledTasks[lastCall.id] = NoEntry
    /\ LiveTasks(lastCall.id) = {}
    /\ \E b \in AllAdIds \ {lastCall.id} :
          scheduledTasks[b] # NoEntry /\ LiveTasks(b) = {scheduledTasks[b].task}

\* C21: a registered campaign never fires before its anchor date and time
\* (scheduleDate scheduleTime), whatever its recurrence kind: its first firing
\* is at the anchor.
C21_NoFiringBeforeAnchor ==
    \A a \in AdIds :
        (AdExists(a) /\ fires[a].last # NoMoment) =>
            ~IsBefore(fires[a].last, ParseDateTime(ads[a]))

\* C22: every firing that ends adds its dispatch result to the statistics
\* persisted at that time (a firing without a session adds n failures), so
\* the persisted totals are the sums over all firings, also after the
\* campaign record was updated or registered again.
C22_StatsAreRunningTotals ==
    [][/\ \A d \in SchedWorkers :
             (SchedPacingEnds(d) /\ AfterPacing(d).pc = "done") =>
                 LET a == disp[d].ad
                     r == AfterPacing(d)
                 IN  AdExists(a) =>
                        ads'[a].stats =
                            [sent |-> ads[a].stats.sent + r.sent,
                             failed |-> ads[a].stats.failed + r.failed]
       /\ \A t \in TaskIds, d \in SchedWorkers :
             (CronFires(t, d) /\ ~IsUserConnected(tasks[t].ad.userId)) =>
                 LET a == tasks[t].ad.id
                 IN  AdExists(a) =>
                        ads'[a].stats =
                            [sent |-> ads[a].stats.sent,
                             failed |-> ads[a].stats.failed
                                        + Len(tasks[t].ad.groups)]]_vars

(***************************************************************************)
(* Claims about session losses                                             *)
(***************************************************************************)
\* the losses the close handler does not answer with a reconnect
TerminalReasons == {"loggedOut", "forbidden"}

\* C23: when a socket of a tenant closes with a terminal loss (logged out or
\* forbidden), the tenant has no session entry and is not connected, no
\* reconnect attempt is scheduled for the tenant, and the entries, challenges,
\* timers and connect calls of the other tenants are as they were.
C23_TerminalLossEndsSession ==
    [][\A s \in SockIds, r \in TerminalReasons :
          OnClose(s, r) =>
              LET u == socks[s].user
              IN  /\ connections'[u] = NoConn
                  /\ ~IsUserConnected(u)'
                  /\ timers'[u] = 0
                  /\ \A v \in Users \ {u} :
                        /\ connections'[v] = connections[v]
                        /\ qrCodes'[v] = qrCodes[v]
                        /\ timers'[v] = timers[v]
                        /\ connecting'[v] = connecting[v]]_vars

\* C24: after a recoverable loss of a tenant's socket the reconnect timer set
\* by the close handler eventually fires and calls connectUser for the tenant
\* (the only step that takes a pending timer away), also when no disconnect is
\* requested in between.
C24_LossLeadsToReconnect ==
    \A u \in Users : (timers[u] > 0) ~> (timers[u] = 0)

\* the reconnect of a tenant that lost its only socket is under way
C24_Witness ==
    \E u \in Users :
        /\ timers[u] = 0
        /\ connecting[u] > 0
        /\ connections[u] = NoConn
        /\ LiveSocks(u) = {}
        /\ ~disconnected[u]
        /\ \E s \in 1 .. Len(socks) : socks[s].user = u /\ socks[s].ended

\* the sockets of tenant u that have closed; under SpecRetry each of them was
\* lost with a recoverable status without having been ready, one after another
RecoverableLosses(u) ==
    Cardinality({s \in 1 .. Len(socks) : socks[s].user = u /\ socks[s].ended})

\* C25: once a tenant has had the maximum number of consecutive recoverable
\* losses without reaching Connected, no reconnect is scheduled or under way
\* for it and it rests without a session entry and without a socket.
C25_ReconnectionIsBounded ==
    \A u \in Users :
        RecoverableLosses(u) >= MaxReconnectAttempts =>
            /\ timers[u] = 0
            /\ connecting[u] = 0
            /\ LiveSocks(u) = {}
            /\ connections[u] = NoConn

\* C26: when the pairing wait of a tenant ends without the session having
\* become ready, the tenant is left without a session entry and without a
\* pairing challenge.
C26_PairingWindowReverts ==
    [][\A s \in SockIds :
          PairingWaitEnds(s) =>
              /\ connections'[socks[s].user] = NoConn
              /\ ~qrCodes'[socks[s].user]]_vars

\* the dispatch on d is over with target groups to which no send was issued
CutShort(d) ==
    /\ disp[d].pc \in {"done", "thrown"}
    /\ Len(disp[d].attempts) < Len(disp[d].groups)

\* C27: a dispatch that loses its tenant's session in flight still returns a
\* result: the sends issued keep their outcome, every send not issued is
\* counted as failed, and no pacing delay is spent on a send not issued.
C27_LossFailsRemainingFast ==
    \A d \in Dispatchers :
        CutShort(d) =>
            /\ disp[d].pc = "done"
            /\ disp[d].total = Len(disp[d].groups)
            /\ disp[d].sent + disp[d].failed = disp[d].total
            /\ disp[d].delays <= Len(disp[d].attempts)

(***************************************************************************)
(* Claims about firings that fail or are cancelled                         *)
(***************************************************************************)
\* the registry after a failed firing of task t: a `once` campaign has lost
\* its entry and its task, a recurring one has what it had, and so has every
\* other campaign
AfterFailedFiring(t) ==
    \A a \in AllAdIds :
        IF a = tasks[t].ad.id /\ tasks[t].ad.repeat = "once"
        THEN scheduledTasks'[a] = NoEntry /\ LiveTasks(a)' = {}
        ELSE scheduledTasks'[a] = scheduledTasks[a] /\ LiveTasks(a)' = LiveTasks(a)

\* C28: a firing that fails (the dispatcher raises, or the tenant has no
\* session) leaves a recurring campaign's entry and started task in place,
\* so that it fires at its next occurrence, unregisters a `once` campaign,
\* and leaves the entries and tasks of all other campaigns unchanged.
C28_FailedFiringKeepsSchedule ==
    [][/\ \A d \in SchedWorkers :
             (SchedPacingEnds(d) /\ AfterPacing(d).pc = "thrown") =>
                 AfterFailedFiring(disp[d].task)
       /\ \A t \in TaskIds, d \in SchedWorkers :
             (CronFires(t, d) /\ ~IsUserConnected(tasks[t].ad.userId)) =>
                 AfterFailedFiring(t)]_vars

\* a recurring campaign that has failed is due again, and a `once` campaign
\* that has failed is unregistered
C28_Witness ==
    /\ \E a \in AllAdIds :
          /\ ads[a].repeat # "once"
          /\ ads[a].stats.failed > 0
          /\ scheduledTasks[a] # NoEntry
          /\ scheduledTasks[a].task \in due
    /\ \E b \in AllAdIds :
          /\ ads[b].repeat = "once"
          /\ ads[b].stats.failed > 0
          /\ scheduledTasks[b] = NoEntry
          /\ LiveTasks(b) = {}

\* C29: cancelScheduledAd called while the campaign's dispatch is in flight
\* leaves the dispatch as it is and the campaign without entry and started
\* task; the steps of a dispatch, its completion included, create no entry and
\* start no task; and only a campaign with an entry fires.
C29_CancelInFlightIsFinal ==
    [][/\ \A a \in AllAdIds :
             CancelScheduledAdCall(a) =>
                 /\ disp' = disp
                 /\ scheduledTasks'[a] = NoEntry
                 /\ LiveTasks(a)' = {}
       /\ \A d \in SchedWorkers :
             SchedPacingEnds(d) =>
                 \A a \in AllAdIds :
                    /\ scheduledTasks[a] = NoEntry => scheduledTasks'[a] = NoEntry
                    /\ LiveTasks(a)' \subseteq LiveTasks(a)
       /\ \A t \in TaskIds, d \in SchedWorkers :
             CronFires(t, d) => scheduledTasks[tasks[t].ad.id] # NoEntry]_vars

\* a campaign was cancelled while its batch is running: the batch goes on
\* with its stopped task
C29_Witness ==
    /\ lastCall # NoCall
    /\ lastCall.path = "cancelled"
    /\ lastCall.had
    /\ scheduledTasks[lastCall.id] = NoEntry
    /\ \E d \in SchedWorkers :
          /\ disp[d].pc \in {"sending", "pacing"}
          /\ disp[d].ad = lastCall.id
          /\ ~tasks[disp[d].task].live

(***************************************************************************)
(* Claims about the next occurrence                                        *)
(***************************************************************************)
\* the anchor date plus k recurrence units: moment(anchor).add(k, unit)
AddUnits(date, repeat, k) ==
    CASE repeat = "daily" -> AddDays(date, k)
      [] repeat = "weekly" -> AddDays(date, 7 * k)
      [] repeat = "monthly" ->
            ClampDay(date.y + ((date.m - 1 + k) \div 12),
                     ((date.m - 1 + k) % 12) + 1, date.d)
      [] repeat = "yearly" -> ClampDay(date.y + k, date.m, date.d)
      [] OTHER -> date

\* the k-th occurrence after the anchor mt
Occurrence(mt, repeat, k) == [mt EXCEPT !.date = AddUnits(@, repeat, k)]

\* the earliest occurrence after the anchor that is not before now
EarliestOccurrence(mt, repeat) ==
    LET K == 1 .. (MaxRecurDays + 2)
        k == CHOOSE i \in K :
                /\ ~IsBeforeNow(Occurrence(mt, repeat, i))
                /\ \A j \in 1 .. (i - 1) : IsBeforeNow(Occurrence(mt, repeat, j))
    IN  Occurrence(mt, repeat, k)

\* C30: for a registered recurring campaign whose anchor is in the past, the
\* next execution time computed is the earliest of anchor + k recurrence units
\* (k >= 1) that is not before now.
C30_NextOccurrenceIsEarliest ==
    \A a \in AdIds :
        (/\ AdExists(a)
         /\ scheduledTasks[a] # NoEntry
         /\ ads[a].repeat # "once"
         /\ IsBeforeNow(ParseDateTime(ads[a]))) =>
            GetNextExecutionTime(a) =
                EarliestOccurrence(ParseDateTime(ads[a]), ads[a].repeat)

(***************************************************************************)
(* Further claims about the rate guard                                     *)
(***************************************************************************)
\* C31: cleanupOldData removes exactly the windows whose hour bucket is older
\* than the 2-hour horizon and the block records whose unblockTime has
\* passed, for every tenant id; every other window and block is unchanged.
C31_CleanupRemovesExactlyOld ==
    [][CleanupOldDataCall =>
          /\ \A k \in DOMAIN userActivity :
                userActivity'[k] =
                    IF k[2] < CurrentHour - 2 THEN NoActivity ELSE userActivity[k]
          /\ \A u \in Users :
                blockedUsers'[u] =
                    IF blockedUsers[u] # NoBlock /\ clock > blockedUsers[u].unblockTime
                    THEN NoBlock ELSE blockedUsers[u]]_vars

\* the send of tenant u to group g that was recorded last lies in the current
\* hour and less than 5 minutes back
TargetedRecently(u, g) ==
    /\ lastTargeted[<<u, g>>] >= 0
    /\ lastTargeted[<<u, g>>] \div MinutesPerHour = CurrentHour
    /\ clock - lastTargeted[<<u, g>>] < DuplicateWindowMinutes

\* C32: with the guard enabled, a canSendMessage call that finds the tenant
\* neither blocked nor at the ceiling is denied with duplicate_group exactly
\* when a send of the tenant to that group was recorded within the last 5
\* minutes in the current window.
C32_DuplicateIffTargetedRecently ==
    (/\ lastCheck # NoCheck
     /\ settings.enabled
     /\ lastCheck.reason \notin {"blocked", "rate_limit"}) =>
        (lastCheck.reason = "duplicate_group"
            <=> TargetedRecently(lastCheck.user, lastCheck.group))

\* the sum of two counters of a window as the program computes it: a counter
\* the window does not have is read as zero here, a counter that is not a
\* number makes the sum not a number
CounterSum(a, b) ==
    IF a = NaN \/ b = NaN THEN NaN
    ELSE (IF a = Undefined THEN 0 ELSE a) + (IF b = Undefined THEN 0 ELSE b)

\* C34: in every rate window, count equals successful + failed, after any
\* interleaving of canSendMessage and recordMessageSent calls.
C34_CountIsSuccessfulPlusFailed ==
    \A k \in DOMAIN userActivity :
        userActivity[k] # NoActivity =>
            userActivity[k].count
                = CounterSum(userActivity[k].successful, userActivity[k].failed)

\* C40: with the guard switched off, canSendMessage allows and
\* validateBroadcast returns valid for every tenant and input, a blocked
\* tenant and a window at the ceiling included, and neither changes a rate
\* window or a block record.
C40_DisabledGuardAllowsAndKeeps ==
    [][~settings.enabled =>
          /\ \A u \in Users, g \in Groups :
                CanSendMessageCall(u, g) =>
                    /\ lastCheck'.reason = "allowed"
                    /\ userActivity' = userActivity
                    /\ blockedUsers' = blockedUsers
          /\ \A u \in Users, gs \in GuardGroupLists :
                ValidateBroadcastCall(u, gs) =>
                    /\ lastOp'.result.valid
                    /\ userActivity' = userActivity
                    /\ blockedUsers' = blockedUsers]_vars

\* the guard is off and a tenant with an unexpired block and a window over the
\* ceiling has been answered by canSendMessage
C40_Witness ==
    /\ ~settings.enabled
    /\ lastCheck # NoCheck
    /\ blockedUsers[lastCheck.user] # NoBlock
    /\ clock <= blockedUsers[lastCheck.user].unblockTime
    /\ userActivity[ActivityKey(lastCheck.user, CurrentHour)] # NoActivity
    /\ userActivity[ActivityKey(lastCheck.user, CurrentHour)].count
           >= settings.maxMessagesPerHour

(***************************************************************************)
(* Further claims about the scheduler                                      *)
(***************************************************************************)
\* C38: scheduleAd(ad) creates a schedule entry for the campaign exactly when
\* validateSchedule(ad.scheduleDate, ad.scheduleTime), evaluated at the same
\* time, returns valid; when it returns invalid no entry and no task is made.
C38_ScheduleAdAgreesWithValidate ==
    [][\A a \in AllAdIds :
          ScheduleAdCall(a) =>
              IF ValidateSchedule(ads[a].scheduleDate, ads[a].scheduleTime).valid
              THEN /\ scheduledTasks'[a] # NoEntry
                   /\ scheduledTasks'[a].nextExecution = ParseDateTime(ads[a])
                   /\ tasks'[scheduledTasks'[a].task] # NoTask
                   /\ tasks'[scheduledTasks'[a].task].live
                   /\ scheduledTasks[a] # NoEntry =>
                         \/ tasks'[scheduledTasks[a].task] = NoTask
                         \/ ~tasks'[scheduledTasks[a].task].live
                         \/ scheduledTasks'[a].task = scheduledTasks[a].task
              ELSE /\ scheduledTasks' = scheduledTasks
                   /\ tasks' = tasks]_vars

\* scheduleAd has been called for a campaign whose date validateSchedule
\* rejects as past, and the campaign has no entry
C38_Witness ==
    /\ lastCall # NoCall
    /\ lastCall.path = "past"
    /\ AdExists(lastCall.id)
    /\ ValidateSchedule(ads[lastCall.id].scheduleDate,
                        ads[lastCall.id].scheduleTime).error = "past"
    /\ scheduledTasks[lastCall.id] = NoEntry

\* C37: after any sequence of the ad routes (create, update, toggle, delete)
\* and timer firings, scheduledTasks holds an entry only for campaigns that are
\* stored, are active and have a schedule date and a schedule time.
C37_EntriesOnlyForActiveScheduledAds ==
    \A a \in AllAdIds :
        scheduledTasks[a] # NoEntry =>
            /\ AdExists(a)
            /\ ads[a].active
            /\ ads[a].scheduleDate # NoDate
            /\ ads[a].scheduleTime # ""

\* a campaign was paused while its firing was dispatching: it is stored, not
\* active and without an entry, and its stopped task is still running
C37_Witness ==
    \E a \in AdIds :
        /\ AdExists(a)
        /\ ~ads[a].active
        /\ scheduledTasks[a] = NoEntry
        /\ \E t \in TaskIds :
              tasks[t] # NoTask /\ ~tasks[t].live /\ tasks[t].ad.id = a /\ Running(t)

\* C35: an entry made by registering a campaign again (update or toggle)
\* while an earlier `once` firing of the same campaign is dispatching stays
\* registered, with its timer started, when that earlier firing completes.
C35_CompletingFiringKeepsNewerEntry ==
    [][\A d \in SchedWorkers, a \in AllAdIds :
          (/\ SchedPacingEnds(d)
           /\ disp'[d].pc = "idle"
           /\ tasks[disp[d].task].ad.repeat = "once"
           /\ tasks[disp[d].task].ad.id = a
           /\ scheduledTasks[a] # NoEntry
           /\ scheduledTasks[a].task # disp[d].task) =>
              /\ scheduledTasks'[a] = scheduledTasks[a]
              /\ tasks'[scheduledTasks[a].task] # NoTask
              /\ tasks'[scheduledTasks[a].task].live]_vars

\* C33: a firing of a campaign whose stored active flag is false when the
\* timer fires is rejected at once: no broadcast is started for it, also when
\* the timer was registered while the campaign was active.
C33_InactiveCampaignIsNotDispatched ==
    [][\A t \in TaskIds, d \in SchedWorkers, a \in AllAdIds :
          (/\ CronFires(t, d)
           /\ tasks[t].ad.id = a
           /\ AdExists(a)
           /\ ~ads[a].active) =>
              disp' = disp]_vars

(***************************************************************************)
(* Further claims about sessions                                           *)
(***************************************************************************)
\* socket s was superseded: its tenant's entry holds another socket
Superseded(s) ==
    /\ s \in 1 .. Len(socks)
    /\ connections[socks[s].user] # NoConn
    /\ connections[socks[s].user].sock # s

\* C36: a connection event of a socket that a later connectUser has
\* superseded never changes the tenant's current entry and schedules no
\* reconnect for the tenant.
C36_SupersededSocketIsIgnored ==
    [][\A s \in SockIds, u \in Users :
          (/\ Superseded(s)
           /\ socks[s].user = u
           /\ \/ OnQr(s)
              \/ OnOpen(s)
              \/ \E r \in CloseReasons : OnClose(s, r)) =>
              /\ connections'[u] = connections[u]
              /\ timers'[u] = timers[u]]_vars

(***************************************************************************)
(* Claims about the panel's schedules                                      *)
(***************************************************************************)
\* C39: in the single-session panel a due schedule is fired at most once per
\* due occurrence: no minute tick fires a schedule for the nextRun it was
\* fired for before, whether that send returned, failed or is still running,
\* and for every days list.
C39_FiredOncePerOccurrence == ~panel.refired
====
